---- MODULE Spec2Model ----
(***************************************************************************)
(* Model of rdslint / dbcheck (src/main.go): the handler built by New, the  *)
(* snapshot assembly (describeCluster and the two Route53 lookups), the     *)
(* policy evaluators that read the snapshot or query the database, and the *)
(* request handlers /checks, /describe, /tables, /unicode, /call and /,    *)
(* whose statements run on the connection pool of handler.db.              *)
(*                                                                         *)
(* Conventions                                                             *)
(*  - A Go pointer is a sequence of length 0 (nil) or 1 (the pointee).      *)
(*  - A Go string that the code slices or trims (host and zone names,       *)
(*    record values, endpoints) is a sequence of one-character strings.     *)
(*    Strings that the code only compares or copies are TLA+ strings.       *)
(*  - A Go run-time panic (nil dereference, index or slice out of range)    *)
(*    is the outcome Panic of the operation in which it happens.            *)
(***************************************************************************)
EXTENDS Integers, Sequences, FiniteSets, Bags, TLC

VARIABLES
    mysqlhost,      \* handler.mysqlhost
    LambdaInvoker,  \* handler.LambdaInvoker
    AccountID,      \* handler.AccountID
    dbInfo,         \* handler.dbInfo: the snapshot (Cluster, DBs, Params)
    aws,            \* what the control plane (Route53, RDS, IAM) answers
    db,             \* handler.db: the pool's free connections and the MySQL server
    calls,          \* provider calls and queries issued by that operation, in order
    ret,            \* the operation that ran last and what it returned
    reqs            \* the requests being served, a bag

vars == <<mysqlhost, LambdaInvoker, AccountID, dbInfo, aws, db, calls, ret, reqs>>

-----------------------------------------------------------------------------
(* Pointers and outcomes *)

Nil == <<>>

Ptr(v) == <<v>>

IsNil(p) == p = <<>>

Deref(p) == p[1]

\* every sequence over S of length lo..hi
SeqOf(S, lo, hi) == UNION {[1..n -> S] : n \in lo..hi}

Panic == [kind |-> "panic"]

Gauge(v) == [kind |-> "gauge", value |-> v]

Str(s) == [kind |-> "string", value |-> s]

NoRet == [op |-> "none", out |-> [kind |-> "none"]]

-----------------------------------------------------------------------------
(* The snapshot: dbinfo{Cluster, DBs, Params} *)

InSync == "in-sync"

DefaultGroup ==
    [DBParameterGroupName |-> Ptr("default.aurora5.6"),
     ParameterApplyStatus |-> Ptr(InSync)]

DefaultEndpoint == Ptr([Address |-> Ptr("db1.cluster.local")])

DefaultInstance ==
    [DBInstanceIdentifier |-> Ptr("db1"),
     DBInstanceClass |-> Ptr("db.r4.large"),
     EngineVersion |-> Ptr("5.7.12"),
     IAMDatabaseAuthenticationEnabled |-> Ptr(TRUE),
     Endpoint |-> DefaultEndpoint,
     DBParameterGroups |-> <<DefaultGroup>>]

DefaultMember ==
    [DBInstanceIdentifier |-> Ptr("db1"),
     DBClusterParameterGroupStatus |-> Ptr(InSync)]

DefaultCluster ==
    [Endpoint |-> Ptr(<<"c">>),
     Status |-> Ptr("available"),
     DBClusterParameterGroup |-> Ptr("cg"),
     DBClusterMembers |-> <<DefaultMember>>,
     AssociatedRoles |-> <<>>]

\* the zero value of dbinfo
EmptyInfo == [Cluster |-> [DefaultCluster EXCEPT !.Endpoint = Nil, !.Status = Nil,
                                                 !.DBClusterParameterGroup = Nil,
                                                 !.DBClusterMembers = <<>>],
              DBs |-> <<>>, Params |-> <<>>]

DefaultInfo == [Cluster |-> DefaultCluster, DBs |-> <<DefaultInstance>>, Params |-> <<>>]

-----------------------------------------------------------------------------
(* Policy evaluators: pure reads of the snapshot *)

\* the loop of iamEnabled from instance i on; gauge is the value set so far
RECURSIVE iamLoop(_, _, _)
iamLoop(DBs, i, gauge) ==
    IF i > Len(DBs) THEN Gauge(gauge)
    ELSE IF IsNil(DBs[i].IAMDatabaseAuthenticationEnabled) THEN Panic
    ELSE IF IsNil(DBs[i].Endpoint) THEN Panic  \* db.Endpoint.Address in both branches
    ELSE IF Deref(DBs[i].IAMDatabaseAuthenticationEnabled)
         THEN iamLoop(DBs, i + 1, 1)
         ELSE iamLoop(DBs, i + 1, gauge)

iamEnabled(info) == iamLoop(info.DBs, 1, 0)

\* the loop over one instance's parameter groups: "ok", "out" (not in-sync) or "panic"
RECURSIVE groupsLoop(_, _)
groupsLoop(groups, j) ==
    IF j > Len(groups) THEN "ok"
    ELSE IF IsNil(groups[j].ParameterApplyStatus) THEN "panic"
    ELSE IF Deref(groups[j].ParameterApplyStatus) # InSync THEN "out"
    ELSE groupsLoop(groups, j + 1)

\* mutant of insyncDBs: only the first instance's groups are read
insyncDBs_firstOnly(DBs, i) ==
    IF DBs = <<>> THEN Gauge(1)
    ELSE LET g == groupsLoop(DBs[1].DBParameterGroups, 1)
         IN IF g = "panic" THEN Panic ELSE IF g = "out" THEN Gauge(0) ELSE Gauge(1)

RECURSIVE insyncDBs(_, _)
insyncDBs(DBs, i) ==
    IF i > Len(DBs) THEN Gauge(1)
    ELSE LET g == groupsLoop(DBs[i].DBParameterGroups, 1)
         IN IF g = "panic" THEN Panic
            ELSE IF g = "out" THEN Gauge(0)
            ELSE insyncDBs(DBs, i + 1)

RECURSIVE insyncMembers(_, _)
insyncMembers(info, i) ==
    IF i > Len(info.Cluster.DBClusterMembers) THEN insyncDBs(info.DBs, 1)
    ELSE LET m == info.Cluster.DBClusterMembers[i]
         IN IF IsNil(m.DBClusterParameterGroupStatus) THEN Panic
            ELSE IF Deref(m.DBClusterParameterGroupStatus) # InSync THEN Gauge(0)
            ELSE insyncMembers(info, i + 1)

insync(info) == insyncMembers(info, 1)

RECURSIVE classLoop(_, _)
classLoop(DBs, i) ==
    IF i > Len(DBs) THEN Str("")
    ELSE IF IsNil(DBs[i].DBInstanceClass) THEN Panic
    ELSE IF Deref(DBs[i].DBInstanceClass) # "" THEN Str(Deref(DBs[i].DBInstanceClass))
    ELSE classLoop(DBs, i + 1)

instanceClass(info) == classLoop(info.DBs, 1)

\* mutant of versionLoop: the first instance's field is returned even when empty
versionLoop_noSkip(DBs, i) ==
    IF i > Len(DBs) THEN Str("")
    ELSE IF IsNil(DBs[i].EngineVersion) THEN Panic
    ELSE Str(Deref(DBs[i].EngineVersion))

RECURSIVE versionLoop(_, _)
versionLoop(DBs, i) ==
    IF i > Len(DBs) THEN Str("")
    ELSE IF IsNil(DBs[i].EngineVersion) THEN Panic
    ELSE IF Deref(DBs[i].EngineVersion) # "" THEN Str(Deref(DBs[i].EngineVersion))
    ELSE versionLoop(DBs, i + 1)

engineVersion(info) == versionLoop(info.DBs, 1)

\* mutant of lookupLoop: the first entry named key decides, with or without a value
RECURSIVE lookupLoop_firstName(_, _, _)
lookupLoop_firstName(Params, key, i) ==
    IF i > Len(Params) THEN Str("")
    ELSE IF IsNil(Params[i].ParameterName) THEN Panic
    ELSE IF Deref(Params[i].ParameterName) = key
         THEN (IF IsNil(Params[i].ParameterValue) THEN Str("")
               ELSE Str(Deref(Params[i].ParameterValue)))
    ELSE lookupLoop_firstName(Params, key, i + 1)

RECURSIVE lookupLoop(_, _, _)
lookupLoop(Params, key, i) ==
    IF i > Len(Params) THEN Str("")
    ELSE IF IsNil(Params[i].ParameterName) THEN Panic
    ELSE IF Deref(Params[i].ParameterName) = key /\ ~IsNil(Params[i].ParameterValue)
         THEN Str(Deref(Params[i].ParameterValue))
    ELSE lookupLoop(Params, key, i + 1)

lookup(info, key) == lookupLoop(info.Params, key, 1)

slowLogEnabled(info) ==
    LET e == lookup(info, "slow_query_log")
        o == lookup(info, "log_output")
        q == lookup(info, "log_queries_not_using_indexes")
    IN IF Panic \in {e, o, q} THEN Panic
       ELSE [kind |-> "gaugevec",
             labels |-> [enabled |-> e.value, log_output |-> o.value,
                         log_queries_not_using_indexes |-> q.value],
             value |-> 1]

-----------------------------------------------------------------------------
(* Outcomes of the assembly functions: a value with a nil error, or an error *)

Ok(v) == [kind |-> "ok", value |-> v]

Err(e) == [kind |-> "error", err |-> e]

\* errors made by the code itself (fmt.Errorf)
NoHostedZone == "no hosted zone found"

NoAlias == "no alias found"

NoClusterInfo == "no cluster info found"

\* the error a failed provider call returns, by the call's name
CallFailed(call) == call

-----------------------------------------------------------------------------
(* DNS resolver: lookupHostedZone and lookupClusterName *)

\* strings.TrimRight(s, "."): every trailing "." removed
RECURSIVE TrimRight(_)
TrimRight(s) ==
    IF s # <<>> /\ s[Len(s)] = "." THEN TrimRight(SubSeq(s, 1, Len(s) - 1)) ELSE s

\* the loop of lookupHostedZone from zone i on
RECURSIVE zoneLoop(_, _, _)
zoneLoop(host, zs, i) ==
    IF i > Len(zs) THEN Err(NoHostedZone)
    ELSE IF IsNil(zs[i].Name) THEN Panic
    ELSE LET name == TrimRight(Deref(zs[i].Name))
         IN IF Len(host) - Len(name) < 0 THEN Panic  \* slice bounds out of range
            ELSE IF SubSeq(host, Len(host) - Len(name) + 1, Len(host)) = name
                 THEN (IF IsNil(zs[i].Id) THEN Panic ELSE Ok(Deref(zs[i].Id)))
            ELSE zoneLoop(host, zs, i + 1)

\* out: the zone id or the error; calls: the provider calls issued
lookupHostedZone(host, cloud) ==
    [out |-> IF cloud.ListHostedZones.err THEN Err(CallFailed("ListHostedZones"))
             ELSE zoneLoop(host, cloud.ListHostedZones.HostedZones, 1),
     calls |-> <<"ListHostedZones">>]

\* the loop of lookupClusterName from record i on; the listing's err is nil here
RECURSIVE recordLoop(_, _, _)
recordLoop(host, rs, i) ==
    IF i > Len(rs) THEN Err(NoAlias)
    ELSE IF IsNil(rs[i].Name) THEN Panic
    ELSE IF Deref(rs[i].Name) = host \o <<".">>
         THEN (IF Len(rs[i].ResourceRecords) = 0 THEN Panic  \* index out of range
               ELSE IF IsNil(rs[i].ResourceRecords[1].Value) THEN Panic
               ELSE Ok(Deref(rs[i].ResourceRecords[1].Value)))
    ELSE recordLoop(host, rs, i + 1)

\* the answer to ListResourceRecordSets for hosted zone hz
RecordSetsOf(cloud, hz) ==
    IF hz \in DOMAIN cloud.ListResourceRecordSets
    THEN cloud.ListResourceRecordSets[hz]
    ELSE [err |-> TRUE, ResourceRecordSets |-> <<>>]

lookupClusterName(host, cloud) ==
    LET hz == lookupHostedZone(host, cloud)
    IN IF hz.out.kind # "ok" THEN hz
       ELSE [out |-> IF RecordSetsOf(cloud, hz.out.value).err
                     THEN Panic  \* listrecords is nil when Send fails
                     ELSE recordLoop(host, RecordSetsOf(cloud, hz.out.value).ResourceRecordSets, 1),
             calls |-> hz.calls \o <<"ListResourceRecordSets">>]

-----------------------------------------------------------------------------
(* Cluster locator and parameter aggregator: describeCluster *)

Min(S) == CHOOSE x \in S : \A y \in S : x <= y

\* the pages in which the provider delivers the list L when the page
\* boundaries fall after the positions in cuts
RECURSIVE Split(_, _, _)
Split(L, cuts, from) ==
    IF from > Len(L) THEN <<>>
    ELSE LET rest == {c \in cuts : c >= from /\ c < Len(L)}
             end == IF rest = {} THEN Len(L) ELSE Min(rest)
         IN <<SubSeq(L, from, end)>> \o Split(L, cuts, end + 1)

Pages(L, cuts) == IF L = <<>> THEN <<<<>>>> ELSE Split(L, cuts, 1)

RECURSIVE Flatten(_)
Flatten(pages) == IF pages = <<>> THEN <<>> ELSE Head(pages) \o Flatten(Tail(pages))

\* the answer to DescribeDBClusterParameters for group g: one Send, one page
ClusterParametersOf(cloud, g) ==
    IF g \in DOMAIN cloud.DescribeDBClusterParameters
    THEN LET r == cloud.DescribeDBClusterParameters[g]
         IN [err |-> r.err, Parameters |-> Head(Pages(r.params, r.cuts))]
    ELSE [err |-> TRUE, Parameters |-> <<>>]

\* the answer to DescribeDBInstances for instance identifier id
InstancesOf(cloud, id) ==
    IF id \in DOMAIN cloud.DescribeDBInstances
    THEN cloud.DescribeDBInstances[id]
    ELSE [err |-> TRUE, DBInstances |-> <<>>]

\* rds.NewDescribeDBParametersPaginator over group g: p.Next() until the last
\* page or the first failing call; p.Err() is never read.
\* params: what the loop appends; n: the calls it issues
Paginate(cloud, g) ==
    IF g \notin DOMAIN cloud.DescribeDBParameters THEN [params |-> <<>>, n |-> 1]
    ELSE LET r == cloud.DescribeDBParameters[g]
             pages == Pages(r.params, r.cuts)
         IN IF r.failAt \in 1..Len(pages)
            THEN [params |-> Flatten(SubSeq(pages, 1, r.failAt - 1)), n |-> r.failAt]
            ELSE [params |-> Flatten(pages), n |-> Len(pages)]

\* mutant of EndpointMatches: trailing dots are ignored
EndpointMatches_trimmed(endpoint, dnsEndpoint) == TrimRight(endpoint) = TrimRight(dnsEndpoint)

\* *v.Endpoint == dnsEndpoint
EndpointMatches(endpoint, dnsEndpoint) == endpoint = dnsEndpoint

\* the loop over v.DBClusterMembers from member i on
RECURSIVE membersLoop(_, _, _, _)
membersLoop(cloud, members, i, acc) ==
    IF i > Len(members) THEN [out |-> Ok(TRUE), DBs |-> acc.DBs, calls |-> acc.calls]
    ELSE IF IsNil(members[i].DBInstanceIdentifier)
         THEN [out |-> Panic, DBs |-> acc.DBs, calls |-> acc.calls]
    ELSE LET r == InstancesOf(cloud, Deref(members[i].DBInstanceIdentifier))
             cs == acc.calls \o <<"DescribeDBInstances">>
         IN IF r.err
            THEN [out |-> Err(CallFailed("DescribeDBInstances")), DBs |-> acc.DBs, calls |-> cs]
            ELSE membersLoop(cloud, members, i + 1,
                             [DBs |-> acc.DBs \o r.DBInstances, calls |-> cs])

\* the loop over one instance's DBParameterGroups from group j on
RECURSIVE groupParams(_, _, _, _)
groupParams(cloud, groups, j, acc) ==
    IF j > Len(groups) THEN [out |-> Ok(TRUE), Params |-> acc.Params, calls |-> acc.calls]
    ELSE IF IsNil(groups[j].DBParameterGroupName)
         THEN [out |-> Panic, Params |-> acc.Params, calls |-> acc.calls]
    ELSE LET p == Paginate(cloud, Deref(groups[j].DBParameterGroupName))
         IN groupParams(cloud, groups, j + 1,
                        [Params |-> acc.Params \o p.params,
                         calls |-> acc.calls \o [k \in 1..p.n |-> "DescribeDBParameters"]])

\* the loop over dbInfo.DBs from instance i on
RECURSIVE dbsParams(_, _, _, _)
dbsParams(cloud, DBs, i, acc) ==
    IF i > Len(DBs) THEN [out |-> Ok(TRUE), Params |-> acc.Params, calls |-> acc.calls]
    ELSE IF Len(DBs[i].DBParameterGroups) = 0  \* db.DBParameterGroups[0]
         THEN [out |-> Panic, Params |-> acc.Params, calls |-> acc.calls]
    ELSE LET g == groupParams(cloud, DBs[i].DBParameterGroups, 1, acc)
         IN IF g.out = Panic THEN g
            ELSE dbsParams(cloud, DBs, i + 1, [Params |-> g.Params, calls |-> g.calls])

\* the body of "if *v.Endpoint == dnsEndpoint" for the matching cluster v
aggregate(cloud, v) ==
    LET info0 == [EmptyInfo EXCEPT !.Cluster = v]
    IN IF IsNil(v.DBClusterParameterGroup) THEN [out |-> Panic, info |-> info0, calls |-> <<>>]
       ELSE
       LET cp == ClusterParametersOf(cloud, Deref(v.DBClusterParameterGroup))
           c1 == <<"DescribeDBClusterParameters">>
       IN IF cp.err
          THEN [out |-> Err(CallFailed("DescribeDBClusterParameters")), info |-> info0,
                calls |-> c1]
          ELSE
          LET info1 == [info0 EXCEPT !.Params = cp.Parameters]
              m == membersLoop(cloud, v.DBClusterMembers, 1, [DBs |-> <<>>, calls |-> c1])
              info2 == [info1 EXCEPT !.DBs = m.DBs]
          IN IF m.out.kind # "ok" THEN [out |-> m.out, info |-> info2, calls |-> m.calls]
             ELSE
             LET g == dbsParams(cloud, info2.DBs, 1, [Params |-> info2.Params, calls |-> m.calls])
             IN [out |-> g.out, info |-> [info2 EXCEPT !.Params = g.Params], calls |-> g.calls]

\* the loop over result.DBClusters from cluster i on
RECURSIVE clustersLoop(_, _, _, _)
clustersLoop(cloud, cs, i, dnsEndpoint) ==
    IF i > Len(cs) THEN [out |-> Err(NoClusterInfo), info |-> EmptyInfo, calls |-> <<>>]
    ELSE IF IsNil(cs[i].Endpoint) THEN [out |-> Panic, info |-> EmptyInfo, calls |-> <<>>]
    ELSE IF EndpointMatches(Deref(cs[i].Endpoint), dnsEndpoint) THEN aggregate(cloud, cs[i])
    ELSE clustersLoop(cloud, cs, i + 1, dnsEndpoint)

\* out: Ok or the error returned (or Panic); info: the dbinfo returned with it
describeCluster(host, cloud) ==
    LET dns == lookupClusterName(host, cloud)
    IN IF dns.out.kind # "ok" THEN [out |-> dns.out, info |-> EmptyInfo, calls |-> dns.calls]
       ELSE LET c1 == dns.calls \o <<"DescribeDBClusters">>
            IN IF cloud.DescribeDBClusters.err
               THEN [out |-> Err(CallFailed("DescribeDBClusters")), info |-> EmptyInfo,
                     calls |-> c1]
               ELSE LET r == clustersLoop(cloud, cloud.DescribeDBClusters.DBClusters, 1,
                                          dns.out.value)
                    IN [out |-> r.out, info |-> r.info, calls |-> c1 \o r.calls]

-----------------------------------------------------------------------------
(* Lambda-integration checker: the /checks handler *)

\* http.Error(w, body, http.StatusInternalServerError)
HttpError(body) == [kind |-> "error", code |-> 500, body |-> body]

\* the handler returned without writing anything
NoResponse == [kind |-> "empty"]

\* fmt.Sprintf("GRANT EXECUTE ON *.* TO '%s'@'%%'", h.LambdaInvoker)
ExecuteGrant(invoker) == "GRANT EXECUTE ON *.* TO '" \o invoker \o "'@'%'"

FullAccess == "arn:aws:iam::aws:policy/AWSLambdaFullAccess"

CollationWanted == "utf8mb4_unicode_520_ci"

CharsetWanted == "utf8mb4"

\* mutant of hasExecutePerms: any grant row will do
hasExecutePerms_any(grants, invoker) == grants # <<>>

\* the loop over grants
hasExecutePerms(grants, invoker) ==
    \E i \in 1..Len(grants) : grants[i] = ExecuteGrant(invoker)

\* arn.Parse on an ARN given as its ":"-separated sections, the resource
\* section as its "/"-separated parts
arnParses(a) == Len(a) = 6 /\ a[1] = "arn"

\* the resource section as the string it is: its parts joined by "/"
RECURSIVE Join(_)
Join(parts) ==
    IF parts = <<>> THEN ""
    ELSE IF Len(parts) = 1 THEN parts[1]
    ELSE parts[1] \o "/" \o Join(Tail(parts))

\* strings.TrimPrefix(a.Resource, "role/"): the resource without a leading
\* "role/", and unchanged when it does not start with it
RoleName(a) ==
    IF Len(a[6]) > 1 /\ a[6][1] = "role" THEN Join(Tail(a[6])) ELSE Join(a[6])

\* the answer to ListAttachedRolePolicies for the role named r
PoliciesOf(cloud, r) ==
    IF r \in DOMAIN cloud.ListAttachedRolePolicies
    THEN cloud.ListAttachedRolePolicies[r]
    ELSE [err |-> TRUE, AttachedPolicies |-> <<>>]

\* the loop over resp.AttachedPolicies: "found", "none" or "panic"
RECURSIVE policiesLoop(_, _)
policiesLoop(ps, k) ==
    IF k > Len(ps) THEN "none"
    ELSE IF IsNil(ps[k].PolicyArn) THEN "panic"
    ELSE IF Deref(ps[k].PolicyArn) = FullAccess THEN "found"
    ELSE policiesLoop(ps, k + 1)

\* strings.HasPrefix on a name given as its chunks
HasPrefix(name, p) == Len(name) >= 1 /\ name[1] = p

\* findNamedMatches(myExp, source): the first ARN of the source text, given
\* as its words; no match leaves both groups empty
RECURSIVE findNamedMatches(_)
findNamedMatches(words) ==
    IF words = <<>> THEN [account |-> "", fn |-> ""]
    ELSE IF DOMAIN Head(words) = {"account", "fn"}  \* an ARN; any other word is [text]
         THEN [account |-> Head(words).account, fn |-> Head(words).fn]
    ELSE findNamedMatches(Tail(words))

\* src.AccountCheck for a routine whose name starts with "lambda"
accountCheck(source, account) ==
    LET result == findNamedMatches(IF IsNil(source) THEN <<>> ELSE Deref(source))
    IN [fn |-> result.fn, account |-> result.account,
        flag |-> IF result.fn = "alambda_simple"
                 THEN (IF result.account # account THEN "account" ELSE "none")
                 ELSE "function"]

\* mutant of correctCollation: one of the two matching is enough
correctCollation_either(row) ==
    row.DatabaseCollation = CollationWanted \/ row.CharacterSetClient = CharsetWanted

correctCollation(row) ==
    row.DatabaseCollation = CollationWanted /\ row.CharacterSetClient = CharsetWanted

-----------------------------------------------------------------------------
(* Requests and the connection pool of h.db.  net/http serves every request
   on a goroutine of its own, and each statement of a handler takes a
   connection from the pool, runs on it and gives it back: the statements of
   overlapping requests interleave, and two statements of one request need
   not run on the same connection.

   A request in flight is [handler, pc, stmt, conn, answer, calls, loc]:
   pc names the statement or IAM call it is at ("start" before the first),
   stmt is that statement, conn the connection it holds while the statement
   runs (the connection's default database in a pointer, Nil between
   statements and during an IAM call), answer what the server answered,
   calls the statements and IAM calls it has issued, loc the handler's local
   variables.  A request waits while its statement runs and while its IAM
   call is under way; other requests go on meanwhile. *)

\* database/sql: defaultMaxIdleConns
MaxIdleConns == 2

\* the database named in the DSN: the default database of a new connection
DsnDatabase == "bugzilla"

\* a statement sent to the server
Stmt(q, arg) == [q |-> q, arg |-> arg]

\* the handler goes on to statement s, its locals being loc
Ask(r, s, loc) ==
    [done |-> FALSE,
     req |-> [r EXCEPT !.pc = s.q, !.stmt = s, !.conn = Nil, !.answer = Nil, !.loc = loc]]

\* the handler sends ListAttachedRolePolicies for the role named name and
\* waits for the answer; it holds no connection meanwhile
AskIam(r, name, loc) ==
    [done |-> FALSE,
     req |-> [r EXCEPT !.pc = "ListAttachedRolePolicies",
                       !.stmt = Stmt("ListAttachedRolePolicies", name),
                       !.conn = Nil, !.answer = Nil, !.loc = loc,
                       !.calls = Append(@, "ListAttachedRolePolicies:" \o name)]]

\* the request waits for the answer to its IAM call
IamWait(r) == r.pc = "ListAttachedRolePolicies"

\* the handler returns, having written one of the responses outs
Done(r, outs) == [done |-> TRUE, outs |-> outs, calls |-> r.calls]

\* the request as the router hands it to handler h
NewRequest(h) ==
    [handler |-> h, pc |-> "start", stmt |-> Nil, conn |-> Nil, answer |-> Nil,
     calls |-> <<>>, loc |-> Nil]

\* db.conn(): the connections a statement may run on: a free connection when
\* the pool holds one (the oldest or the newest, by the build's database/sql),
\* otherwise a new one
Conns(database) ==
    IF BagToSet(database.idle) = {}
    THEN {[free |-> FALSE, current |-> DsnDatabase]}
    ELSE {[free |-> TRUE, current |-> d] : d \in BagToSet(database.idle)}

\* db.putConn(): the connection goes back to the pool, or is closed when the
\* pool already holds MaxIdleConns free connections
putConn(idle, d) ==
    IF BagCardinality(idle) < MaxIdleConns THEN idle (+) SetToBag({d}) ELSE idle

\* the rows of the routine named n in database d
RoutineOf(database, d, n) ==
    {i \in 1..Len(database.procs.rows) :
        database.procs.rows[i].Database = d /\ database.procs.rows[i].Name = n}

\* the rows of the table named t in database d
TableOf(database, d, t) ==
    IF d \in DOMAIN database.schemas
    THEN {i \in 1..Len(database.schemas[d].tables.rows) :
             database.schemas[d].tables.rows[i].Name = t}
    ELSE {}

\* what the server answers to statement s on a connection whose default
\* database is d, and the connection's default database afterwards
Answer(database, s, d) ==
    IF s.q = "use"
    THEN IF s.arg \in DOMAIN database.schemas /\ ~database.schemas[s.arg].use_err
         THEN [answer |-> [err |-> FALSE], current |-> s.arg]
         ELSE [answer |-> [err |-> TRUE], current |-> d]
    ELSE [current |-> d,
          answer |->
            CASE s.q = "ping" -> [err |-> database.ping_err]
              [] s.q = "CALL mysql.lambda_async" -> [err |-> database.call_err]
              [] s.q = "SELECT EXISTS mysql.user" -> database.user
              [] s.q = "show grants" -> database.grants
              [] s.q = "SHOW PROCEDURE STATUS" ->
                     [err |-> database.procs.err,
                      rows |-> [k \in 1..Len(database.procs.rows) |->
                                   [Database |-> database.procs.rows[k].Database,
                                    Name |-> database.procs.rows[k].Name]]]
              [] s.q = "SHOW CREATE PROCEDURE" ->
                     LET m == RoutineOf(database, d, s.arg)
                     IN IF m = {} THEN [err |-> TRUE]
                        ELSE database.procs.rows[CHOOSE i \in m : \A j \in m : i <= j].create
              [] s.q = "SHOW CREATE DATABASE" ->
                     [err |-> s.arg \notin DOMAIN database.schemas \/
                              database.schemas[s.arg].create_err]
              [] s.q = "SHOW TABLE STATUS" ->
                     IF d \in DOMAIN database.schemas THEN database.schemas[d].status
                     ELSE [err |-> TRUE, rows |-> <<>>]
              [] s.q = "show tables" ->
                     IF d \in DOMAIN database.schemas
                     THEN [err |-> database.schemas[d].tables.err,
                           rows |-> [k \in 1..Len(database.schemas[d].tables.rows) |->
                                        database.schemas[d].tables.rows[k].Name]]
                     ELSE [err |-> TRUE, rows |-> <<>>]
              [] s.q = "describe" ->
                     LET m == TableOf(database, d, s.arg)
                     IN IF m = {} THEN [err |-> TRUE, rows |-> <<>>]
                        ELSE database.schemas[d].tables.rows[CHOOSE i \in m : TRUE].describe
              [] s.q = "select COUNT(*)" ->
                     LET m == TableOf(database, d, s.arg)
                     IN IF m = {} THEN [err |-> TRUE]
                        ELSE database.schemas[d].tables.rows[CHOOSE i \in m : TRUE].count]

\* the request r, its statement sent on a connection and answered by a
Sent(r, a) ==
    [r EXCEPT !.conn = Ptr(a.current), !.answer = a.answer, !.calls = Append(@, r.stmt.q)]

-----------------------------------------------------------------------------
(* The /checks handler, statement by statement *)

\* the CreateProcedure appended for the listed routine v from the scanned row
CreateProcedure(v, row, account) ==
    [Database |-> v.Database,
     Procedure |-> row.Procedure,
     Source |-> row.Source,
     CharacterSetClient |-> row.CharacterSetClient,
     DatabaseCollation |-> row.DatabaseCollation,
     AccountCheck |-> IF HasPrefix(v.Name, "lambda")
                      THEN Ptr(accountCheck(row.Source, account)) ELSE Nil,
     CorrectCollation |-> correctCollation(row)]

\* the template function IncorrectCount
IncorrectCount(procs) == Cardinality({i \in 1..Len(procs) : ~procs[i].CorrectCollation})

\* rejig: the inspected routines by database, in inspection order
rejig(procsInfo) ==
    [d \in {procsInfo[i].Database : i \in 1..Len(procsInfo)} |->
        SelectSeq(procsInfo, LAMBDA v : v.Database = d)]

\* what the template renders: per database the issue count, the total and the routines
Report(procsInfo) ==
    [kind |-> "report", code |-> 200,
     databases |-> [d \in DOMAIN rejig(procsInfo) |->
                       [issues |-> IncorrectCount(rejig(procsInfo)[d]),
                        total |-> Len(rejig(procsInfo)[d]),
                        procs |-> rejig(procsInfo)[d]]]]

\* the loop over the SHOW PROCEDURE STATUS rows pp from row i on, up to its
\* next statement: the rows of sys and mysql are passed over
RECURSIVE procsLoop(_, _, _, _)
procsLoop(r, pp, i, procsInfo) ==
    IF i > Len(pp) THEN Done(r, {Report(procsInfo)})
    ELSE IF pp[i].Database \in {"sys", "mysql"} THEN procsLoop(r, pp, i + 1, procsInfo)
    ELSE Ask(r, Stmt("use", pp[i].Database), [pp |-> pp, i |-> i, procsInfo |-> procsInfo])

\* the loop over h.dbInfo.Cluster.AssociatedRoles from role i on, up to its
\* next IAM call; after the loop, the test of lambdaAccess and the routine
\* listing
RECURSIVE rolesLoop(_, _, _, _)
rolesLoop(r, roles, i, lambdaAccess) ==
    IF i > Len(roles)
    THEN IF ~lambdaAccess
         THEN Done(r, {HttpError("Active Cluster.AssociatedRoles is missing the AWSLambdaFullAccess policy")})
         ELSE Ask(r, Stmt("SHOW PROCEDURE STATUS", ""), Nil)
    ELSE IF IsNil(roles[i].Status) THEN Done(r, {Panic})
    ELSE IF Deref(roles[i].Status) # "ACTIVE" THEN rolesLoop(r, roles, i + 1, lambdaAccess)
    ELSE IF IsNil(roles[i].RoleArn) THEN Done(r, {Panic})
    ELSE IF ~arnParses(Deref(roles[i].RoleArn)) THEN rolesLoop(r, roles, i + 1, lambdaAccess)
    ELSE AskIam(r, RoleName(Deref(roles[i].RoleArn)), [i |-> i, lambdaAccess |-> lambdaAccess])

\* the role loop from where request r stands, resp being the answer to its
\* IAM call
checksRoles(info, r, resp) ==
    IF resp.err THEN Done(r, {NoResponse})
    ELSE IF policiesLoop(resp.AttachedPolicies, 1) = "panic" THEN Done(r, {Panic})
    ELSE rolesLoop(r, info.Cluster.AssociatedRoles, r.loc.i + 1,
                   r.loc.lambdaAccess \/ policiesLoop(resp.AttachedPolicies, 1) = "found")

\* checks from where request r stands, a being the answer to its statement
checks(invoker, account, info, cloud, r, a) ==
    CASE r.pc = "start" ->
             IF invoker = "" THEN Done(r, {HttpError("LAMBDA_INVOKER_USERNAME is unset")})
             ELSE Ask(r, Stmt("SELECT EXISTS mysql.user", invoker), Nil)
      [] r.pc = "SELECT EXISTS mysql.user" ->
             IF a.err THEN Done(r, {HttpError("select failed")})
             ELSE IF ~a.exists THEN Done(r, {HttpError("LAMBDA_INVOKER_USERNAME does not exist")})
             ELSE Ask(r, Stmt("show grants", invoker), Nil)
      [] r.pc = "show grants" ->
             IF a.err THEN Done(r, {HttpError("show grants failed")})
             ELSE IF ~hasExecutePerms(a.rows, invoker)
             THEN Done(r, {HttpError("LAMBDA_INVOKER_USERNAME does not have execute permissions")})
             ELSE rolesLoop(r, info.Cluster.AssociatedRoles, 1, FALSE)
      [] r.pc = "ListAttachedRolePolicies" -> checksRoles(info, r, PoliciesOf(cloud, r.stmt.arg))
      [] r.pc = "SHOW PROCEDURE STATUS" ->
             IF a.err THEN Done(r, {HttpError("SHOW PROCEDURE STATUS failed")})
             ELSE procsLoop(r, a.rows, 1, <<>>)
      [] r.pc = "use" ->
             IF a.err THEN Done(r, {Panic})  \* MustExec
             ELSE Ask(r, Stmt("SHOW CREATE PROCEDURE", r.loc.pp[r.loc.i].Name), r.loc)
      [] r.pc = "SHOW CREATE PROCEDURE" ->
             IF a.err THEN procsLoop(r, r.loc.pp, r.loc.i + 1, r.loc.procsInfo)
             ELSE procsLoop(r, r.loc.pp, r.loc.i + 1,
                            Append(r.loc.procsInfo,
                                   CreateProcedure(r.loc.pp[r.loc.i], a.row, account)))

-----------------------------------------------------------------------------
(* The handlers /, /call, /tables and /unicode, statement by statement *)

\* fmt.Fprintf(w, "OK")
OkText == [kind |-> "text", code |-> 200, body |-> "OK"]

ping(r, a) ==
    CASE r.pc = "start" -> Ask(r, Stmt("ping", ""), Nil)
      [] r.pc = "ping" -> Done(r, {IF a.err THEN HttpError("ping failed") ELSE OkText})

call(account, r, a) ==
    CASE r.pc = "start" -> Ask(r, Stmt("CALL mysql.lambda_async", account), Nil)
      [] r.pc = "CALL mysql.lambda_async" ->
             Done(r, {IF a.err THEN HttpError("CALL mysql.lambda_async failed") ELSE OkText})

\* the *sql.Rows that call drops is never closed: its connection does not
\* come back to the pool
Leaks(r) == r.handler = "call" /\ ~r.answer.err

\* strings.Contains on a column type given as its tokens
Contains(type, token) == \E i \in 1..Len(type) : type[i] = token

\* sort.Slice by Value, descending, over the entries of the map smallint: map
\* iteration order is not fixed and the sort is not stable, so entries of
\* equal Value come in any order
SortedEntries(smallint) ==
    {ss \in [1..Cardinality(DOMAIN smallint) ->
                {[Key |-> k, Value |-> smallint[k]] : k \in DOMAIN smallint}] :
        /\ \A i, j \in DOMAIN ss : ss[i] = ss[j] => i = j
        /\ \A i, j \in DOMAIN ss : i < j => ss[i].Value >= ss[j].Value}

\* the loop of tables over the listed tables ts from table i on, up to its
\* next statement; smallint is the map filled so far
tablesLoop(r, ts, i, smallint) ==
    IF i > Len(ts)
    THEN Done(r, {[kind |-> "json", code |-> 200, body |-> ss] : ss \in SortedEntries(smallint)})
    ELSE Ask(r, Stmt("describe", ts[i]), [tables |-> ts, i |-> i, smallint |-> smallint])

\* tables from where request r stands
tables(r, a) ==
    CASE r.pc = "start" -> Ask(r, Stmt("show tables", ""), Nil)
      [] r.pc = "show tables" ->
             IF a.err THEN Done(r, {HttpError("show tables failed")})
             ELSE tablesLoop(r, a.rows, 1, <<>>)
      [] r.pc = "describe" ->
             IF a.err THEN Done(r, {HttpError("describe failed")})
             ELSE IF Len(a.rows) = 0 THEN Done(r, {Panic})  \* tinfo[0]
             ELSE IF Contains(a.rows[1].Type, "smallint")
             THEN Ask(r, Stmt("select COUNT(*)", r.loc.tables[r.loc.i]), r.loc)
             ELSE tablesLoop(r, r.loc.tables, r.loc.i + 1, r.loc.smallint)
      [] r.pc = "select COUNT(*)" ->
             tablesLoop(r, r.loc.tables, r.loc.i + 1,
                        (r.loc.tables[r.loc.i] :> (IF a.err THEN 0 ELSE a.value))
                            @@ r.loc.smallint)

\* what the template of unicode renders for one table row
collationLine(t) ==
    [Name |-> t.Name,
     Collation |-> IF IsNil(t.Collation) THEN "Missing collation" ELSE Deref(t.Collation),
     red |-> ~IsNil(t.Collation) /\ Deref(t.Collation) # CollationWanted]

\* the loop of unicode over the database names from name j on, up to its
\* next statement
unicodeLoop(r, names, j, dbinfo) ==
    IF j > Len(names) THEN Done(r, {[kind |-> "page", code |-> 200, body |-> dbinfo]})
    ELSE Ask(r, Stmt("use", names[j]), [names |-> names, j |-> j, dbinfo |-> dbinfo])

\* unicode from where request r stands
unicode(r, a) ==
    CASE r.pc = "start" -> unicodeLoop(r, <<"bugzilla", "unee_t_enterprise">>, 1, <<>>)
      [] r.pc = "use" ->
             IF a.err THEN Done(r, {Panic})  \* MustExec
             ELSE Ask(r, Stmt("SHOW CREATE DATABASE", r.loc.names[r.loc.j]), r.loc)
      [] r.pc = "SHOW CREATE DATABASE" ->
             IF a.err THEN Done(r, {HttpError("SHOW CREATE DATABASE failed")})
             ELSE Ask(r, Stmt("SHOW TABLE STATUS", ""), r.loc)
      [] r.pc = "SHOW TABLE STATUS" ->
             IF a.err THEN Done(r, {HttpError("SHOW TABLE STATUS failed")})
             ELSE unicodeLoop(r, r.loc.names, r.loc.j + 1,
                              Append(r.loc.dbinfo,
                                     [Name |-> r.loc.names[r.loc.j],
                                      Tables |-> [k \in 1..Len(a.rows) |->
                                                     collationLine(a.rows[k])]]))

-----------------------------------------------------------------------------
(* Evaluator actions: main registers each evaluator's result; none writes the
   snapshot *)

\* mutant of Frame: the evaluator clears the snapshot it has read
Frame_clearing ==
    dbInfo' = EmptyInfo /\ UNCHANGED <<mysqlhost, LambdaInvoker, AccountID, aws, db, calls, reqs>>

Frame == UNCHANGED <<mysqlhost, LambdaInvoker, AccountID, dbInfo, aws, db, calls, reqs>>

Eval_iamEnabled == ret' = [op |-> "iamEnabled", out |-> iamEnabled(dbInfo)] /\ Frame

Eval_insync == ret' = [op |-> "insync", out |-> insync(dbInfo)] /\ Frame

Eval_instanceClass == ret' = [op |-> "instanceClass", out |-> instanceClass(dbInfo)] /\ Frame

Eval_engineVersion == ret' = [op |-> "engineVersion", out |-> engineVersion(dbInfo)] /\ Frame

Eval_slowLogEnabled == ret' = [op |-> "slowLogEnabled", out |-> slowLogEnabled(dbInfo)] /\ Frame

\* the nominal environment: one zone, one record, one cluster, one instance
DefaultHost == <<"a", ".", "a">>

DefaultZone == [Id |-> Ptr("Z1"), Name |-> Ptr(<<"a", ".">>)]

DefaultRecord ==
    [Name |-> Ptr(DefaultHost \o <<".">>),
     ResourceRecords |-> <<[Value |-> Ptr(<<"c">>)]>>,
     AliasTarget |-> Nil]

DefaultParam == [ParameterName |-> Ptr("slow_query_log"), ParameterValue |-> Ptr("1")]

DefaultAws ==
    [ListHostedZones |-> [err |-> FALSE, HostedZones |-> <<DefaultZone>>],
     ListResourceRecordSets |->
         [z \in {"Z1"} |-> [err |-> FALSE, ResourceRecordSets |-> <<DefaultRecord>>]],
     DescribeDBClusters |-> [err |-> FALSE, DBClusters |-> <<DefaultCluster>>],
     DescribeDBClusterParameters |->
         [g \in {"cg"} |-> [err |-> FALSE, params |-> <<DefaultParam>>, cuts |-> {}]],
     DescribeDBInstances |->
         [d \in {"db1"} |-> [err |-> FALSE, DBInstances |-> <<DefaultInstance>>]],
     DescribeDBParameters |->
         [g \in {"default.aurora5.6"} |-> [failAt |-> 0, params |-> <<>>, cuts |-> {}]],
     ListAttachedRolePolicies |->
         [r \in {"r1"} |-> [err |-> FALSE, AttachedPolicies |-> <<[PolicyArn |-> Ptr(FullAccess)]>>]]]

DefaultInvoker == "lambda_invoker"

\* a database that can be selected and has no tables
DefaultSchema ==
    [use_err |-> FALSE, create_err |-> FALSE,
     status |-> [err |-> FALSE, rows |-> <<>>],
     tables |-> [err |-> FALSE, rows |-> <<>>]]

\* sqlx.Open makes no connection: the pool is empty.  The server has the two
\* databases, no routines, and the invoker with the execute grant
DefaultDb ==
    [idle |-> EmptyBag,
     user |-> [err |-> FALSE, exists |-> TRUE],
     grants |-> [err |-> FALSE, rows |-> <<ExecuteGrant(DefaultInvoker)>>],
     procs |-> [err |-> FALSE, rows |-> <<>>],
     ping_err |-> FALSE,
     call_err |-> FALSE,
     schemas |-> [d \in {"bugzilla", "unee_t_enterprise"} |-> DefaultSchema]]

\* everything but the snapshot at rest
Idle ==
    /\ mysqlhost = DefaultHost
    /\ LambdaInvoker = DefaultInvoker
    /\ AccountID = "1"
    /\ aws = DefaultAws
    /\ db = DefaultDb
    /\ calls = <<>>
    /\ ret = NoRet
    /\ reqs = EmptyBag

-----------------------------------------------------------------------------
(* SpecIam: iamEnabled over every instance list of up to MaxIamDBs instances *)

MaxIamDBs == 3

IamInstances ==
    {[DefaultInstance EXCEPT !.IAMDatabaseAuthenticationEnabled = f, !.Endpoint = e] :
        f \in {Nil, Ptr(TRUE), Ptr(FALSE)}, e \in {Nil, DefaultEndpoint}}

InitIam ==
    /\ Idle
    /\ dbInfo \in {[DefaultInfo EXCEPT !.DBs = s] : s \in SeqOf(IamInstances, 0, MaxIamDBs)}

SpecIam == InitIam /\ [][Eval_iamEnabled]_vars

\* the snapshot with instance i's IAM flag set to false
FlipIam(info, i) ==
    [info EXCEPT !.DBs[i].IAMDatabaseAuthenticationEnabled = Ptr(FALSE)]

\* C1: iamEnabled is a strict conjunction: on a non-empty instance list the
\* gauge is 1 only if every instance has IAMDatabaseAuthenticationEnabled set,
\* and flipping any one flag of a list that yields 1 to false yields 0.
C1_StrictConjunction ==
    (ret.op = "iamEnabled" /\ dbInfo.DBs # <<>> /\ ret.out = Gauge(1)) =>
        /\ \A i \in 1..Len(dbInfo.DBs) :
               dbInfo.DBs[i].IAMDatabaseAuthenticationEnabled = Ptr(TRUE)
        /\ \A i \in 1..Len(dbInfo.DBs) : iamEnabled(FlipIam(dbInfo, i)) = Gauge(0)

-----------------------------------------------------------------------------
(* SpecInsync: insync over cluster members and instance parameter groups *)

MaxMembers == 2

MaxSyncDBs == 2

MaxGroups == 1

Statuses == {Nil, Ptr(InSync), Ptr("pending-reboot")}

SyncMembers ==
    {[DefaultMember EXCEPT !.DBClusterParameterGroupStatus = st] : st \in Statuses}

SyncGroups == {[DefaultGroup EXCEPT !.ParameterApplyStatus = st] : st \in Statuses}

SyncInstances ==
    {[DefaultInstance EXCEPT !.DBParameterGroups = g] : g \in SeqOf(SyncGroups, 0, MaxGroups)}

InitInsync ==
    /\ Idle
    /\ dbInfo \in {[DefaultInfo EXCEPT !.Cluster.DBClusterMembers = m, !.DBs = s] :
                      m \in SeqOf(SyncMembers, 0, MaxMembers),
                      s \in SeqOf(SyncInstances, 0, MaxSyncDBs)}

SpecInsync == InitInsync /\ [][Eval_insync]_vars

\* every status read by insync, members first, then groups in instance order
MemberStatuses(info) ==
    {info.Cluster.DBClusterMembers[i].DBClusterParameterGroupStatus :
        i \in 1..Len(info.Cluster.DBClusterMembers)}

GroupStatuses(info) ==
    UNION {{info.DBs[i].DBParameterGroups[j].ParameterApplyStatus :
               j \in 1..Len(info.DBs[i].DBParameterGroups)} : i \in 1..Len(info.DBs)}

AllStatuses(info) == MemberStatuses(info) \cup GroupStatuses(info)

\* C2: insync returns 1 if and only if every member status and every
\* parameter-group apply status equals "in-sync"; when every status is
\* present, a single other status anywhere yields 0.
C2_InsyncIff ==
    ret.op = "insync" =>
        /\ ret.out = Gauge(1) <=> AllStatuses(dbInfo) \subseteq {Ptr(InSync)}
        /\ (Nil \notin AllStatuses(dbInfo) /\ ~(AllStatuses(dbInfo) \subseteq {Ptr(InSync)}))
               => ret.out = Gauge(0)

\* two members and two instances, everything in sync but the last group
C2_Witness ==
    /\ ret.op = "insync"
    /\ Len(dbInfo.Cluster.DBClusterMembers) = 2
    /\ MemberStatuses(dbInfo) = {Ptr(InSync)}
    /\ Len(dbInfo.DBs) = 2
    /\ dbInfo.DBs[1].DBParameterGroups = <<DefaultGroup>>
    /\ Len(dbInfo.DBs[2].DBParameterGroups) = 1
    /\ dbInfo.DBs[2].DBParameterGroups[1].ParameterApplyStatus = Ptr("pending-reboot")
    /\ ret.out = Gauge(0)

-----------------------------------------------------------------------------
(* SpecVersion: engineVersion and instanceClass *)

MaxVerDBs == 2

VerInstances ==
    {[DefaultInstance EXCEPT !.EngineVersion = v, !.DBInstanceClass = c] :
        v \in {Nil, Ptr(""), Ptr("5.7.12"), Ptr("5.6.10a")},
        c \in {Nil, Ptr(""), Ptr("db.r4.large"), Ptr("db.t2.small")}}

InitVersion ==
    /\ Idle
    /\ dbInfo \in {[DefaultInfo EXCEPT !.DBs = s] : s \in SeqOf(VerInstances, 0, MaxVerDBs)}

SpecVersion == InitVersion /\ [][Eval_engineVersion \/ Eval_instanceClass]_vars

\* out is the first non-empty entry of the pointer list fs (all of them set up
\* to that entry), or "" when every entry is set and empty
FirstNonEmpty(fs, out) ==
    /\ \A i \in 1..Len(fs) :
           (/\ \A j \in 1..i : ~IsNil(fs[j])
            /\ \A j \in 1..(i - 1) : Deref(fs[j]) = ""
            /\ Deref(fs[i]) # "") => out = Str(Deref(fs[i]))
    /\ (\A i \in 1..Len(fs) : fs[i] = Ptr("")) => out = Str("")

\* C9: engineVersion and instanceClass return the field of the first instance,
\* in snapshot order, whose field is non-empty, and "" when there is none;
\* instances after the first non-empty one do not matter.
C9_FirstNonEmpty ==
    /\ ret.op = "engineVersion" =>
           FirstNonEmpty([i \in 1..Len(dbInfo.DBs) |-> dbInfo.DBs[i].EngineVersion], ret.out)
    /\ ret.op = "instanceClass" =>
           FirstNonEmpty([i \in 1..Len(dbInfo.DBs) |-> dbInfo.DBs[i].DBInstanceClass], ret.out)

\* the scenario of the specification: ("5.7.12", "db.r4.large") then ("", ...)
C9_Witness ==
    /\ ret.op = "engineVersion"
    /\ Len(dbInfo.DBs) = 2
    /\ dbInfo.DBs[1].EngineVersion = Ptr("5.7.12")
    /\ dbInfo.DBs[1].DBInstanceClass = Ptr("db.r4.large")
    /\ dbInfo.DBs[2].EngineVersion = Ptr("")
    /\ ret.out = Str("5.7.12")

-----------------------------------------------------------------------------
(* SpecSlowLog: slowLogEnabled and lookup over the snapshot's parameters *)

MaxParams == 3

SlowLogKeys == {"slow_query_log", "log_output", "log_queries_not_using_indexes"}

SlowLogParams ==
    {[ParameterName |-> n, ParameterValue |-> v] :
        n \in {Nil} \cup {Ptr(k) : k \in SlowLogKeys},
        v \in {Nil, Ptr("0"), Ptr("1"), Ptr("FILE")}}

InitSlowLog ==
    /\ Idle
    /\ dbInfo \in {[DefaultInfo EXCEPT !.Params = s] : s \in SeqOf(SlowLogParams, 0, MaxParams)}

SpecSlowLog == InitSlowLog /\ [][Eval_slowLogEnabled]_vars

\* positions of the parameters named key that carry a value
Valued(info, key) ==
    {i \in 1..Len(info.Params) :
        info.Params[i].ParameterName = Ptr(key) /\ ~IsNil(info.Params[i].ParameterValue)}

\* label is what the snapshot stores for key: "" when no entry named key has a
\* value, else the value of the first entry that has one, unmodified
Verbatim(info, key, label) ==
    IF Valued(info, key) = {} THEN label = ""
    ELSE \E i \in Valued(info, key) :
            /\ \A j \in Valued(info, key) : i <= j
            /\ label = Deref(info.Params[i].ParameterValue)

\* C10: slowLogEnabled exposes slow_query_log, log_output and
\* log_queries_not_using_indexes exactly as the snapshot stores them; a key
\* that is absent, or present only without a value, surfaces as "" and the
\* evaluator still returns its gauge.
C10_SlowLogVerbatim ==
    (ret.op = "slowLogEnabled" /\
     \A i \in 1..Len(dbInfo.Params) : ~IsNil(dbInfo.Params[i].ParameterName)) =>
        /\ ret.out.kind = "gaugevec"
        /\ ret.out.value = 1
        /\ Verbatim(dbInfo, "slow_query_log", ret.out.labels.enabled)
        /\ Verbatim(dbInfo, "log_output", ret.out.labels.log_output)
        /\ Verbatim(dbInfo, "log_queries_not_using_indexes",
                    ret.out.labels.log_queries_not_using_indexes)

\* the scenario of the specification: slow_query_log=1, log_output=FILE,
\* log_queries_not_using_indexes=0
C10_Witness ==
    /\ ret.op = "slowLogEnabled"
    /\ dbInfo.Params =
         <<[ParameterName |-> Ptr("slow_query_log"), ParameterValue |-> Ptr("1")],
           [ParameterName |-> Ptr("log_output"), ParameterValue |-> Ptr("FILE")],
           [ParameterName |-> Ptr("log_queries_not_using_indexes"), ParameterValue |-> Ptr("0")]>>
    /\ ret.out.labels = [enabled |-> "1", log_output |-> "FILE",
                         log_queries_not_using_indexes |-> "0"]

-----------------------------------------------------------------------------
(* SpecZone: lookupHostedZone over every host and zone listing *)

MaxHostLen == 3

MaxNameLen == 3

MaxZones == 2

Alphabet == {"a", "b", "."}

\* a domain name without its trailing dot: labels of letters separated by single dots
IsDomain(s) ==
    /\ s # <<>>
    /\ s[1] # "." /\ s[Len(s)] # "."
    /\ \A i \in 1..(Len(s) - 1) : ~(s[i] = "." /\ s[i + 1] = ".")

Domains(n) == {s \in SeqOf(Alphabet, 1, n) : IsDomain(s)}

\* Route53 lists a zone's name fully qualified, with the trailing dot
ZoneNames == {d \o <<".">> : d \in Domains(MaxNameLen)}

\* a listing of zones named ns[1], ns[2], ..: the zone at position i has id "Z<i>"
ZoneListing(ns) ==
    [err |-> FALSE,
     HostedZones |-> [i \in 1..Len(ns) |-> [Id |-> Ptr("Z" \o ToString(i)), Name |-> Ptr(ns[i])]]]

\* the listing call fails, or lists up to n zones
ZoneListings(n) ==
    {[err |-> TRUE, HostedZones |-> <<>>]} \cup
    {ZoneListing(ns) : ns \in SeqOf(ZoneNames, 0, n)}

InitZone ==
    /\ mysqlhost \in Domains(MaxHostLen)
    /\ aws \in {[DefaultAws EXCEPT !.ListHostedZones = l] : l \in ZoneListings(MaxZones)}
    /\ LambdaInvoker = DefaultInvoker
    /\ AccountID = "1"
    /\ dbInfo = EmptyInfo
    /\ db = DefaultDb
    /\ calls = <<>>
    /\ ret = NoRet
    /\ reqs = EmptyBag

Do_lookupHostedZone ==
    LET r == lookupHostedZone(mysqlhost, aws)
    IN /\ ret' = [op |-> "lookupHostedZone", out |-> r.out]
       /\ calls' = r.calls
       /\ UNCHANGED <<mysqlhost, LambdaInvoker, AccountID, dbInfo, aws, db, reqs>>

SpecZone == InitZone /\ [][Do_lookupHostedZone]_vars

IsSuffix(t, s) == Len(t) <= Len(s) /\ SubSeq(s, Len(s) - Len(t) + 1, Len(s)) = t

\* the zone's name with the trailing dot removed
ZoneName(z) == IF z.Name[1] # <<>> /\ z.Name[1][Len(z.Name[1])] = "."
               THEN SubSeq(z.Name[1], 1, Len(z.Name[1]) - 1) ELSE z.Name[1]

\* positions of the listed zones whose name is a suffix of the host
SuffixZones(host, zs) == {i \in 1..Len(zs) : IsSuffix(ZoneName(zs[i]), host)}

\* C3: lookupHostedZone returns the zone whose name (trailing dot removed) is
\* the longest suffix of the host, whatever the listing order, and a NotFound
\* error, never a crash, when no zone name is a suffix of the host.
C3_LongestSuffix ==
    (ret.op = "lookupHostedZone" /\ ~aws.ListHostedZones.err) =>
        LET zs == aws.ListHostedZones.HostedZones
            m == SuffixZones(mysqlhost, zs)
        IN IF m = {} THEN ret.out = Err(NoHostedZone)
           ELSE \E i \in m :
                   /\ ret.out = Ok(Deref(zs[i].Id))
                   /\ \A j \in m : Len(ZoneName(zs[j])) <= Len(ZoneName(zs[i]))

-----------------------------------------------------------------------------
(* SpecRecord: lookupClusterName over the record sets of the selected zone *)

MaxRecords == 2

\* hosts that the nominal zone "a." owns
RecordHosts == {h \in Domains(MaxHostLen) : IsSuffix(<<".", "a">>, h)}

Targets == {<<"c">>, <<"c", ".">>}

\* a record set holds literal values or an alias target, never both
RecordBodies ==
    {[ResourceRecords |-> <<[Value |-> Ptr(v)]>>, AliasTarget |-> Nil] : v \in Targets} \cup
    {[ResourceRecords |-> <<>>, AliasTarget |-> Ptr([DNSName |-> Ptr(v)])] : v \in Targets}

RecordSets ==
    {[Name |-> Ptr(h \o <<".">>), ResourceRecords |-> b.ResourceRecords,
      AliasTarget |-> b.AliasTarget] : h \in RecordHosts, b \in RecordBodies}

\* the listing call fails, or lists up to n record sets
RecordListings(n) ==
    {[err |-> TRUE, ResourceRecordSets |-> <<>>]} \cup
    {[err |-> FALSE, ResourceRecordSets |-> rs] : rs \in SeqOf(RecordSets, 0, n)}

InitRecord ==
    /\ mysqlhost \in RecordHosts
    /\ aws \in {[DefaultAws EXCEPT !.ListResourceRecordSets["Z1"] = l] : l \in RecordListings(MaxRecords)}
    /\ LambdaInvoker = DefaultInvoker
    /\ AccountID = "1"
    /\ dbInfo = EmptyInfo
    /\ db = DefaultDb
    /\ calls = <<>>
    /\ ret = NoRet
    /\ reqs = EmptyBag

Do_lookupClusterName ==
    LET r == lookupClusterName(mysqlhost, aws)
    IN /\ ret' = [op |-> "lookupClusterName", out |-> r.out]
       /\ calls' = r.calls
       /\ UNCHANGED <<mysqlhost, LambdaInvoker, AccountID, dbInfo, aws, db, reqs>>

SpecRecord == InitRecord /\ [][Do_lookupClusterName]_vars

\* s without one trailing "."
StripDot(s) == IF s # <<>> /\ s[Len(s)] = "." THEN SubSeq(s, 1, Len(s) - 1) ELSE s

\* the record's alias target, or its first literal value when it has none
TargetOf(r) ==
    IF ~IsNil(r.AliasTarget) THEN Deref(Deref(r.AliasTarget).DNSName)
    ELSE Deref(r.ResourceRecords[1].Value)

\* C4: within the selected zone lookupClusterName selects the record named
\* host + "." and returns its alias target, or its first literal value when it
\* has no alias target, without the trailing "."; with no such record, or a
\* failed listing call, it returns an error, not a value or a crash.
C4_AliasOrFirstValue ==
    ret.op = "lookupClusterName" =>
        LET l == aws.ListResourceRecordSets["Z1"]
            rs == l.ResourceRecordSets
            m == {i \in 1..Len(rs) : rs[i].Name = Ptr(mysqlhost \o <<".">>)}
        IN IF l.err \/ m = {} THEN ret.out.kind = "error"
           ELSE \E i \in m :
                   /\ \A j \in m : i <= j
                   /\ ret.out = Ok(StripDot(TargetOf(rs[i])))

-----------------------------------------------------------------------------
(* New: the snapshot is assembled once, at process start *)

New ==
    /\ ret = NoRet
    /\ LET r == describeCluster(mysqlhost, aws)
       IN /\ ret' = [op |-> "describeCluster", out |-> r.out]
          /\ calls' = r.calls
          /\ dbInfo' = IF r.out = Panic THEN dbInfo ELSE r.info
    /\ UNCHANGED <<mysqlhost, LambdaInvoker, AccountID, aws, db, reqs>>

-----------------------------------------------------------------------------
(* SpecLocate: the cluster locator over every cluster listing *)

MaxClusters == 3

ClusterEndpoints == {Nil, Ptr(<<"c">>), Ptr(<<"C">>), Ptr(<<"c", ".">>), Ptr(<<"x", "c">>)}

\* a listing of clusters with endpoints es[1], es[2], ..
ClusterListing(es) ==
    [err |-> FALSE,
     DBClusters |-> [i \in 1..Len(es) |->
                        [Endpoint |-> es[i],
                         Status |-> Ptr("available"),
                         DBClusterParameterGroup |-> Ptr("cg"),
                         DBClusterMembers |-> <<DefaultMember>>,
                         AssociatedRoles |-> <<>>,
                         DBClusterIdentifier |-> Ptr("cluster" \o ToString(i))]]]

\* the listing call fails, or lists up to n clusters
ClusterListings(n) ==
    {[err |-> TRUE, DBClusters |-> <<>>]} \cup
    {ClusterListing(es) : es \in SeqOf(ClusterEndpoints, 0, n)}

\* the nominal record with literal value v
RecordTo(v) ==
    [err |-> FALSE,
     ResourceRecordSets |-> <<[DefaultRecord EXCEPT !.ResourceRecords = <<[Value |-> Ptr(v)]>>]>>]

InitLocate ==
    /\ mysqlhost = DefaultHost
    /\ aws \in {[DefaultAws EXCEPT !.ListResourceRecordSets["Z1"] = RecordTo(v),
                                   !.DescribeDBClusters = l] :
                   v \in Targets, l \in ClusterListings(MaxClusters)}
    /\ LambdaInvoker = DefaultInvoker
    /\ AccountID = "1"
    /\ dbInfo = EmptyInfo
    /\ db = DefaultDb
    /\ calls = <<>>
    /\ ret = NoRet
    /\ reqs = EmptyBag

SpecLocate == InitLocate /\ [][New]_vars

\* the alias target that lookupClusterName resolved in SpecLocate
Resolved == aws.ListResourceRecordSets["Z1"].ResourceRecordSets[1].ResourceRecords[1].Value

AggregationCalls ==
    {"DescribeDBClusterParameters", "DescribeDBInstances", "DescribeDBParameters"}

CallSet == {calls[i] : i \in 1..Len(calls)}

\* C5: the locator selects a cluster only when its Endpoint equals the
\* resolved alias target exactly (case-sensitive, no suffix or trailing-dot
\* normalisation); when every listed cluster publishes an endpoint and none
\* equals the target, describeCluster returns the "no cluster info found"
\* error with an empty snapshot and issues no parameter or instance call.
C5_ExactEndpoint ==
    (ret.op = "describeCluster" /\ ~aws.DescribeDBClusters.err) =>
        LET cs == aws.DescribeDBClusters.DBClusters
        IN /\ CallSet \cap AggregationCalls # {} =>
                  /\ dbInfo.Cluster.Endpoint = Resolved
                  /\ \E i \in 1..Len(cs) :
                         /\ cs[i] = dbInfo.Cluster
                         /\ \A j \in 1..(i - 1) : cs[j].Endpoint # Resolved
           /\ (\A i \in 1..Len(cs) : cs[i].Endpoint \notin {Nil, Resolved}) =>
                  /\ ret.out = Err(NoClusterInfo)
                  /\ dbInfo = EmptyInfo
                  /\ CallSet \cap AggregationCalls = {}
           /\ ret.out = Ok(TRUE) => dbInfo.Cluster.Endpoint = Resolved

\* target "c" against clusters published as "C", "c." and "xc": no cluster is found
C5_Witness ==
    /\ ret.op = "describeCluster"
    /\ Resolved = Ptr(<<"c">>)
    /\ Len(aws.DescribeDBClusters.DBClusters) = 3
    /\ aws.DescribeDBClusters.DBClusters[1].Endpoint = Ptr(<<"C">>)
    /\ aws.DescribeDBClusters.DBClusters[2].Endpoint = Ptr(<<"c", ".">>)
    /\ aws.DescribeDBClusters.DBClusters[3].Endpoint = Ptr(<<"x", "c">>)
    /\ ret.out = Err(NoClusterInfo)
    /\ calls = <<"ListHostedZones", "ListResourceRecordSets", "DescribeDBClusters">>

-----------------------------------------------------------------------------
(* SpecAggregate: the parameter aggregator over provider fixtures that differ
   in parameters, page boundaries, members, instance groups and failing calls *)

MaxPageParams == 2

AggParams ==
    {[ParameterName |-> Ptr("slow_query_log"), ParameterValue |-> Ptr("1")],
     [ParameterName |-> Ptr("slow_query_log"), ParameterValue |-> Ptr("0")],
     [ParameterName |-> Ptr("log_output"), ParameterValue |-> Ptr("FILE")]}

\* a parameter list together with a placement of its page boundaries
PagedLists(n) ==
    UNION {{[params |-> L, cuts |-> c] : c \in SUBSET (1..(Len(L) - 1))} :
           L \in SeqOf(AggParams, 0, n)}

ClusterParamAnswers(n) ==
    {[err |-> TRUE, params |-> <<>>, cuts |-> {}]} \cup
    {[err |-> FALSE, params |-> l.params, cuts |-> l.cuts] :
        l \in PagedLists(n)}

GroupParamAnswers(n) ==
    UNION {{[failAt |-> f, params |-> l.params, cuts |-> l.cuts] :
               f \in 0..Len(Pages(l.params, l.cuts))} :
           l \in PagedLists(n)}

Member(id) == [DefaultMember EXCEPT !.DBInstanceIdentifier = Ptr(id)]

Group(g) == [DefaultGroup EXCEPT !.DBParameterGroupName = Ptr(g)]

Instance(id, gs) ==
    [DefaultInstance EXCEPT !.DBInstanceIdentifier = Ptr(id),
                            !.DBParameterGroups = [k \in 1..Len(gs) |-> Group(gs[k])]]

\* what DescribeDBInstances may answer for the second member
SecondInstanceAnswers ==
    {[err |-> TRUE, DBInstances |-> <<>>], [err |-> FALSE, DBInstances |-> <<>>]} \cup
    {[err |-> FALSE, DBInstances |-> <<Instance("db2", gs)>>] :
        gs \in {<<>>, <<"g1">>, <<"g2">>, <<"g1", "g2">>}}

AggregateFixtures(n) ==
    {[DefaultAws EXCEPT
         !.DescribeDBClusters.DBClusters = <<[DefaultCluster EXCEPT !.DBClusterMembers = m]>>,
         !.DescribeDBClusterParameters = [g \in {"cg"} |-> cp],
         !.DescribeDBInstances =
             [d \in {"db1", "db2"} |->
                 IF d = "db1" THEN [err |-> FALSE, DBInstances |-> <<Instance("db1", <<"g1">>)>>]
                 ELSE i2],
         !.DescribeDBParameters =
             [g \in {"g1", "g2"} |->
                 IF g = "g1" THEN gp
                 ELSE [failAt |-> 0, cuts |-> {},
                       params |-> <<[ParameterName |-> Ptr("log_output"),
                                     ParameterValue |-> Ptr("TABLE")]>>]]] :
        m \in {<<>>, <<Member("db1")>>, <<Member("db1"), Member("db2")>>},
        cp \in ClusterParamAnswers(n), gp \in GroupParamAnswers(n), i2 \in SecondInstanceAnswers}

InitAggregate ==
    /\ mysqlhost = DefaultHost
    /\ aws \in AggregateFixtures(MaxPageParams)
    /\ LambdaInvoker = DefaultInvoker
    /\ AccountID = "1"
    /\ dbInfo = EmptyInfo
    /\ db = DefaultDb
    /\ calls = <<>>
    /\ ret = NoRet
    /\ reqs = EmptyBag

SpecAggregate == InitAggregate /\ [][New]_vars

\* every parameter the provider holds for the groups of the instances ds, in
\* traversal order
RECURSIVE AllGroupParams(_, _)
AllGroupParams(cloud, names) ==
    IF names = <<>> THEN <<>>
    ELSE cloud.DescribeDBParameters[Head(names)].params \o AllGroupParams(cloud, Tail(names))

RECURSIVE GroupNames(_)
GroupNames(ds) ==
    IF ds = <<>> THEN <<>>
    ELSE [k \in 1..Len(Head(ds).DBParameterGroups) |->
             Deref(Head(ds).DBParameterGroups[k].DBParameterGroupName)] \o GroupNames(Tail(ds))

\* no paginated call of the fixture fails
AllPagesDelivered ==
    \A g \in DOMAIN aws.DescribeDBParameters : aws.DescribeDBParameters[g].failAt = 0

\* C6: pagination is transparent: with no failing call, the Params of the
\* snapshot are the cluster-level parameters followed by the instance-group
\* parameters, every parameter of every page, whatever the page boundaries.
C6_PaginationTransparent ==
    (ret.op = "describeCluster" /\ ret.out = Ok(TRUE) /\ AllPagesDelivered) =>
        dbInfo.Params =
            aws.DescribeDBClusterParameters["cg"].params \o
            AllGroupParams(aws, GroupNames(dbInfo.DBs))

-----------------------------------------------------------------------------
(* Requests: the router starts a handler, each of its statements is sent on a
   connection and its answer received, each of its IAM calls is answered,
   and the handler returns *)

MaxRequests == 2

\* the handler of request r, from where it stands
Resume(r) ==
    CASE r.handler = "checks" -> checks(LambdaInvoker, AccountID, dbInfo, aws, r, r.answer)
      [] r.handler = "tables" -> tables(r, r.answer)
      [] r.handler = "unicode" -> unicode(r, r.answer)
      [] r.handler = "call" -> call(AccountID, r, r.answer)
      [] r.handler = "ping" -> ping(r, r.answer)

\* the handler has returned: its response and the calls it issued
Respond(h, res) ==
    /\ \E out \in res.outs : ret' = [op |-> h, out |-> out]
    /\ calls' = res.calls

\* the router hands the request r to its handler, which runs up to its first
\* statement
Accept(r) ==
    /\ BagCardinality(reqs) < MaxRequests
    /\ IF Resume(r).done
       THEN Respond(r.handler, Resume(r)) /\ UNCHANGED reqs
       ELSE reqs' = reqs (+) SetToBag({Resume(r).req}) /\ UNCHANGED <<ret, calls>>
    /\ UNCHANGED <<mysqlhost, LambdaInvoker, AccountID, dbInfo, aws, db>>

\* app.HandleFunc("/checks", h.checks)
Checks == \E r \in {NewRequest("checks")} : Accept(r)

\* app.HandleFunc("/tables", h.tables)
Tables == \E r \in {NewRequest("tables")} : Accept(r)

\* app.HandleFunc("/unicode", h.unicode)
Unicode == \E r \in {NewRequest("unicode")} : Accept(r)

\* app.HandleFunc("/call", h.call)
Call == \E r \in {NewRequest("call")} : Accept(r)

\* app.HandleFunc("/", h.ping)
Ping == \E r \in {NewRequest("ping")} : Accept(r)

\* a request sends its statement: the pool hands it a connection and the
\* server runs the statement on it
Send ==
    \E r \in BagToSet(reqs) :
        /\ IsNil(r.conn) /\ ~IamWait(r)
        /\ \E c \in Conns(db) :
               /\ reqs' = (reqs (-) SetToBag({r})) (+)
                          SetToBag({Sent(r, Answer(db, r.stmt, c.current))})
               /\ db' = [db EXCEPT !.idle = IF c.free THEN @ (-) SetToBag({c.current}) ELSE @]
        /\ UNCHANGED <<mysqlhost, LambdaInvoker, AccountID, dbInfo, aws, calls, ret>>

\* a request has the answer to its statement or to its IAM call: the
\* connection it held goes back to the pool, and the handler runs up to its
\* next statement or IAM call, or returns
Receive ==
    \E r \in BagToSet(reqs) :
        /\ ~IsNil(r.conn) \/ IamWait(r)
        /\ db' = [db EXCEPT !.idle = IF IamWait(r) \/ Leaks(r) THEN @
                                     ELSE putConn(@, Deref(r.conn))]
        /\ LET res == Resume(r)
           IN IF res.done
              THEN Respond(r.handler, res) /\ reqs' = reqs (-) SetToBag({r})
              ELSE /\ reqs' = (reqs (-) SetToBag({r})) (+) SetToBag({res.req})
                   /\ UNCHANGED <<ret, calls>>
        /\ UNCHANGED <<mysqlhost, LambdaInvoker, AccountID, dbInfo, aws>>

\* the client sends a request when the last one is answered
Quiet == BagToSet(reqs) = {}

-----------------------------------------------------------------------------
(* SpecGate: the prerequisites of checks over invoker, grants, roles and
   attached policies; the /checks requests follow one another *)

MaxGrants == 2

MaxRoles == 2

UserAnswers ==
    {[err |-> TRUE, exists |-> FALSE], [err |-> FALSE, exists |-> FALSE],
     [err |-> FALSE, exists |-> TRUE]}

GrantStrings ==
    {ExecuteGrant(DefaultInvoker), "GRANT EXECUTE ON `bugzilla`.* TO 'lambda_invoker'@'%'"}

GrantAnswers(n) ==
    {[err |-> TRUE, rows |-> <<>>]} \cup
    {[err |-> FALSE, rows |-> g] : g \in SeqOf(GrantStrings, 0, n)}

RoleArnOf(r) == <<"arn", "aws", "iam", "", "1", <<"role", r>>>>

\* the ARN of the role r2 under the path /path/
PathArn == <<"arn", "aws", "iam", "", "1", <<"role", "path", "r2">>>>

GateRoles ==
    {[Status |-> Ptr("ACTIVE"), RoleArn |-> Ptr(RoleArnOf("r1"))],
     [Status |-> Ptr("ACTIVE"), RoleArn |-> Ptr(RoleArnOf("r2"))],
     [Status |-> Ptr("ACTIVE"), RoleArn |-> Ptr(PathArn)],
     [Status |-> Ptr("ACTIVE"), RoleArn |-> Ptr(<<"r1">>)],
     [Status |-> Ptr("PENDING"), RoleArn |-> Ptr(RoleArnOf("r1"))]}

Policies(ps) == [err |-> FALSE, AttachedPolicies |-> [k \in 1..Len(ps) |-> [PolicyArn |-> Ptr(ps[k])]]]

ReadOnly == "arn:aws:iam::aws:policy/AmazonRDSReadOnlyAccess"

PolicyAnswers ==
    {[err |-> TRUE, AttachedPolicies |-> <<>>], Policies(<<>>), Policies(<<ReadOnly>>),
     Policies(<<ReadOnly, FullAccess>>)}

InitGate ==
    /\ mysqlhost = DefaultHost
    /\ AccountID = "1"
    /\ LambdaInvoker \in {"", DefaultInvoker}
    /\ dbInfo \in {[DefaultInfo EXCEPT !.Cluster.AssociatedRoles = r] :
                      r \in SeqOf(GateRoles, 0, MaxRoles)}
    /\ aws \in {[DefaultAws EXCEPT !.ListAttachedRolePolicies =
                                 [r \in {"r1", "r2", "path/r2"} |->
                                     IF r = "r1" THEN a1
                                     ELSE IF r = "r2" THEN a2
                                     ELSE Policies(<<FullAccess>>)]] :
                   a1 \in PolicyAnswers, a2 \in PolicyAnswers \ {Policies(<<>>)}}
    /\ db \in {[DefaultDb EXCEPT !.user = u, !.grants = g] :
                  u \in UserAnswers, g \in GrantAnswers(MaxGrants)}
    /\ calls = <<>>
    /\ ret = NoRet
    /\ reqs = EmptyBag

SpecGate == InitGate /\ [][(Quiet /\ Checks) \/ Send \/ Receive]_vars

\* the ARN of the role that IAM knows by the name r
ArnNamed(r) == IF r = "path/r2" THEN PathArn ELSE RoleArnOf(r)

\* the role is ACTIVE and the provider lists AWSLambdaFullAccess among the
\* policies attached to it
Carries(role) ==
    /\ role.Status = Ptr("ACTIVE")
    /\ \E r \in DOMAIN aws.ListAttachedRolePolicies :
           /\ role.RoleArn = Ptr(ArnNamed(r))
           /\ \E k \in 1..Len(aws.ListAttachedRolePolicies[r].AttachedPolicies) :
                  aws.ListAttachedRolePolicies[r].AttachedPolicies[k].PolicyArn = Ptr(FullAccess)

\* some IAM query of the request failed
IamFailed ==
    \E r \in DOMAIN aws.ListAttachedRolePolicies :
        /\ aws.ListAttachedRolePolicies[r].err
        /\ \E k \in 1..Len(calls) : calls[k] = "ListAttachedRolePolicies:" \o r

IamCalls == {"ListAttachedRolePolicies:" \o r : r \in DOMAIN aws.ListAttachedRolePolicies}

ProcedureQueries == {"SHOW PROCEDURE STATUS", "use", "SHOW CREATE PROCEDURE"}

GrantHeld ==
    /\ ~db.grants.err
    /\ \E k \in 1..Len(db.grants.rows) :
           db.grants.rows[k] = "GRANT EXECUTE ON *.* TO 'lambda_invoker'@'%'"

\* C7: checks runs principal-exists, grants, roles in this order and stops at
\* the first that fails: a missing invoker fails before any grants query or
\* IAM call; an invoker without the exact execute grant fails before any IAM
\* call; with both right but no ACTIVE role carrying AWSLambdaFullAccess the
\* request ends at the role step, before any stored-procedure query, with
\* the missing-policy error when its IAM queries were answered.
C7_GateOrder ==
    (ret.op = "checks" /\ LambdaInvoker = DefaultInvoker /\ ~db.user.err) =>
        /\ ~db.user.exists =>
               /\ ret.out = HttpError("LAMBDA_INVOKER_USERNAME does not exist")
               /\ calls = <<"SELECT EXISTS mysql.user">>
        /\ (db.user.exists /\ ~db.grants.err /\ ~GrantHeld) =>
               /\ ret.out = HttpError("LAMBDA_INVOKER_USERNAME does not have execute permissions")
               /\ calls = <<"SELECT EXISTS mysql.user", "show grants">>
        /\ (db.user.exists /\ GrantHeld /\
            \A i \in 1..Len(dbInfo.Cluster.AssociatedRoles) :
                ~Carries(dbInfo.Cluster.AssociatedRoles[i])) =>
               /\ SubSeq(calls, 1, 2) = <<"SELECT EXISTS mysql.user", "show grants">>
               /\ \A k \in 3..Len(calls) : calls[k] \in IamCalls
               /\ ret.out.kind # "report"
               /\ ~IamFailed =>
                      ret.out = HttpError("Active Cluster.AssociatedRoles is missing the AWSLambdaFullAccess policy")

\* invoker and grant in place, a PENDING role that has the policy and an
\* ACTIVE role that lacks it: the request fails at the role step
C7_Witness ==
    /\ ret.op = "checks"
    /\ db.user.exists /\ GrantHeld
    /\ dbInfo.Cluster.AssociatedRoles =
           <<[Status |-> Ptr("PENDING"), RoleArn |-> Ptr(RoleArnOf("r1"))],
             [Status |-> Ptr("ACTIVE"), RoleArn |-> Ptr(RoleArnOf("r2"))]>>
    /\ aws.ListAttachedRolePolicies["r1"] = Policies(<<ReadOnly, FullAccess>>)
    /\ aws.ListAttachedRolePolicies["r2"] = Policies(<<ReadOnly>>)
    /\ ret.out = HttpError("Active Cluster.AssociatedRoles is missing the AWSLambdaFullAccess policy")
    /\ calls = <<"SELECT EXISTS mysql.user", "show grants", "ListAttachedRolePolicies:r2">>

-----------------------------------------------------------------------------
(* SpecProcs: the stored-routine step of checks, the prerequisites passing;
   the /checks requests follow one another *)

MaxProcs == 2

RoutineSources == {Nil, Ptr(<<[text |-> "CALL"], [account |-> "2", fn |-> "alambda_simple"]>>)}

\* what SHOW CREATE PROCEDURE answers for the routine named n
CreateAnswers(n) ==
    {[err |-> TRUE]} \cup
    {[err |-> FALSE,
      row |-> [Procedure |-> n, Source |-> src, CharacterSetClient |-> cs,
               DatabaseCollation |-> co]] :
        src \in RoutineSources, cs \in {CharsetWanted, "utf8"},
        co \in {CollationWanted, "utf8_general_ci"}}

\* the routines a server may have, in the order of its listing: by database,
\* then by name
RoutineKeys ==
    <<[Database |-> "bugzilla", Name |-> <<"lambda", "_async">>],
      [Database |-> "bugzilla", Name |-> <<"update", "_bug">>],
      [Database |-> "sys", Name |-> <<"lambda", "_async">>],
      [Database |-> "sys", Name |-> <<"update", "_bug">>],
      [Database |-> "unee_t_enterprise", Name |-> <<"lambda", "_async">>],
      [Database |-> "unee_t_enterprise", Name |-> <<"update", "_bug">>]>>

\* the routine v with each answer to its source query; the routines of sys,
\* which checks passes over, are never asked for
Routines(v) ==
    {[Database |-> v.Database, Name |-> v.Name, create |-> c] :
        c \in IF v.Database = "sys" THEN {[err |-> TRUE]} ELSE CreateAnswers(v.Name)}

\* the listings of up to n of the routines from the k-th on
RECURSIVE ProcListings(_, _)
ProcListings(k, n) ==
    IF k > Len(RoutineKeys) \/ n = 0 THEN {<<>>}
    ELSE ProcListings(k + 1, n) \cup
         {<<v>> \o rest : v \in Routines(RoutineKeys[k]), rest \in ProcListings(k + 1, n - 1)}

ProcAnswers(n) ==
    {[err |-> TRUE, rows |-> <<>>]} \cup {[err |-> FALSE, rows |-> pp] : pp \in ProcListings(1, n)}

InitProcs ==
    /\ mysqlhost = DefaultHost
    /\ AccountID = "1"
    /\ LambdaInvoker = DefaultInvoker
    /\ dbInfo = [DefaultInfo EXCEPT !.Cluster.AssociatedRoles =
                     <<[Status |-> Ptr("ACTIVE"), RoleArn |-> Ptr(RoleArnOf("r1"))]>>]
    /\ aws = DefaultAws
    /\ db \in {[DefaultDb EXCEPT !.procs = a] : a \in ProcAnswers(MaxProcs)}
    /\ calls = <<>>
    /\ ret = NoRet
    /\ reqs = EmptyBag

SpecProcs == InitProcs /\ [][(Quiet /\ Checks) \/ Send \/ Receive]_vars

\* the listed routines of database d that checks inspects: those whose source
\* query succeeds
Inspected(d) ==
    {i \in 1..Len(db.procs.rows) : db.procs.rows[i].Database = d /\ ~db.procs.rows[i].create.err}

BothMatch(row) ==
    row.DatabaseCollation = "utf8mb4_unicode_520_ci" /\ row.CharacterSetClient = "utf8mb4"

\* C8: for every inspected routine CorrectCollation is true if and only if
\* DatabaseCollation is "utf8mb4_unicode_520_ci" and CharacterSetClient is
\* "utf8mb4", and each database's issue count is the number of its inspected
\* routines with CorrectCollation false.
C8_Collation ==
    (ret.op = "checks" /\ ret.out.kind = "report") =>
        \A d \in DOMAIN ret.out.databases :
            LET sec == ret.out.databases[d]
            IN /\ \A k \in 1..Len(sec.procs) :
                      sec.procs[k].CorrectCollation <=> BothMatch(sec.procs[k])
               /\ sec.total = Cardinality(Inspected(d))
               /\ sec.issues =
                      Cardinality({i \in Inspected(d) : ~BothMatch(db.procs.rows[i].create.row)})
               /\ sec.issues =
                      Cardinality({k \in 1..Len(sec.procs) : ~sec.procs[k].CorrectCollation})

\* one database, one routine with only the character set wrong and one with
\* only the collation wrong: two issues out of two
C8_Witness ==
    /\ ret.op = "checks"
    /\ ret.out.kind = "report"
    /\ DOMAIN ret.out.databases = {"bugzilla"}
    /\ Len(db.procs.rows) = 2
    /\ ~db.procs.rows[1].create.err /\ ~db.procs.rows[2].create.err
    /\ db.procs.rows[1].create.row.DatabaseCollation = CollationWanted
    /\ db.procs.rows[1].create.row.CharacterSetClient = "utf8"
    /\ db.procs.rows[2].create.row.DatabaseCollation = "utf8_general_ci"
    /\ db.procs.rows[2].create.row.CharacterSetClient = CharsetWanted
    /\ ret.out.databases["bugzilla"].issues = 2
    /\ ret.out.databases["bugzilla"].total = 2

-----------------------------------------------------------------------------
(* SpecAssembly: describeCluster with each of its steps failing or not:
   zone listing, record listing, cluster listing, first aggregation calls *)

OtherCluster == [DefaultCluster EXCEPT !.Endpoint = Ptr(<<"x", "c">>)]

AssemblyZones ==
    {[err |-> TRUE, HostedZones |-> <<>>], [err |-> FALSE, HostedZones |-> <<>>],
     [err |-> FALSE, HostedZones |-> <<DefaultZone>>]}

AssemblyRecords ==
    {[err |-> TRUE, ResourceRecordSets |-> <<>>], [err |-> FALSE, ResourceRecordSets |-> <<>>],
     RecordTo(<<"c">>)}

AssemblyClusters ==
    {[err |-> TRUE, DBClusters |-> <<>>]} \cup
    {[err |-> FALSE, DBClusters |-> cs] :
        cs \in {<<>>, <<OtherCluster>>, <<DefaultCluster>>, <<OtherCluster, DefaultCluster>>}}

InitAssembly ==
    /\ mysqlhost = DefaultHost
    /\ aws \in {[DefaultAws EXCEPT !.ListHostedZones = z,
                                   !.ListResourceRecordSets["Z1"] = r,
                                   !.DescribeDBClusters = c,
                                   !.DescribeDBClusterParameters["cg"].err = pe,
                                   !.DescribeDBInstances["db1"].err = ie] :
                   z \in AssemblyZones, r \in AssemblyRecords, c \in AssemblyClusters,
                   pe \in BOOLEAN, ie \in BOOLEAN}
    /\ LambdaInvoker = DefaultInvoker
    /\ AccountID = "1"
    /\ dbInfo = EmptyInfo
    /\ db = DefaultDb
    /\ calls = <<>>
    /\ ret = NoRet
    /\ reqs = EmptyBag

SpecAssembly == InitAssembly /\ [][New]_vars

\* the first step of the assembly that fails under the fixture: the error the
\* caller is to see and the calls issued up to it; "none" when no step fails
FirstFailure ==
    LET zoneCalls == <<"ListHostedZones">>
        recordCalls == <<"ListHostedZones", "ListResourceRecordSets">>
        clusterCalls == <<"ListHostedZones", "ListResourceRecordSets", "DescribeDBClusters">>
        listed == aws.DescribeDBClusters.DBClusters
    IN IF aws.ListHostedZones.err
       THEN [err |-> "ListHostedZones", calls |-> zoneCalls]
       ELSE IF aws.ListHostedZones.HostedZones = <<>>
       THEN [err |-> "no hosted zone found", calls |-> zoneCalls]
       ELSE IF aws.ListResourceRecordSets["Z1"].err
       THEN [err |-> "ListResourceRecordSets", calls |-> recordCalls]
       ELSE IF aws.ListResourceRecordSets["Z1"].ResourceRecordSets = <<>>
       THEN [err |-> "no alias found", calls |-> recordCalls]
       ELSE IF aws.DescribeDBClusters.err
       THEN [err |-> "DescribeDBClusters", calls |-> clusterCalls]
       ELSE IF \A i \in 1..Len(listed) : listed[i].Endpoint # Ptr(<<"c">>)
       THEN [err |-> "no cluster info found", calls |-> clusterCalls]
       ELSE IF aws.DescribeDBClusterParameters["cg"].err
       THEN [err |-> "DescribeDBClusterParameters",
             calls |-> clusterCalls \o <<"DescribeDBClusterParameters">>]
       ELSE IF aws.DescribeDBInstances["db1"].err
       THEN [err |-> "DescribeDBInstances",
             calls |-> clusterCalls \o <<"DescribeDBClusterParameters", "DescribeDBInstances">>]
       ELSE [err |-> "none", calls |-> <<>>]

\* C11: describeCluster issues zone listing, record listing, cluster listing
\* and aggregation calls in this order; when a step fails it issues no call of
\* a later step and returns that step's own error, so that the DNS not-found
\* errors, the cluster not-found error and a failed provider call stay apart.
C11_OrderedShortCircuit ==
    ret.op = "describeCluster" =>
        /\ \A k \in 1..Len(calls) :
               /\ k = 1 => calls[k] = "ListHostedZones"
               /\ k = 2 => calls[k] = "ListResourceRecordSets"
               /\ k = 3 => calls[k] = "DescribeDBClusters"
               /\ k > 3 => calls[k] \in AggregationCalls
        /\ FirstFailure.err # "none" =>
               /\ ret.out = Err(FirstFailure.err)
               /\ calls = FirstFailure.calls
        /\ FirstFailure.err = "none" => ret.out = Ok(TRUE)

-----------------------------------------------------------------------------
(* Claims on the returned snapshot, over the fixtures of SpecAggregate *)

\* the parameter groups the traversal of the returned instances reaches
ReachedGroups == {GroupNames(dbInfo.DBs)[k] : k \in 1..Len(GroupNames(dbInfo.DBs))}

\* the members the located cluster declares, by instance identifier
DeclaredMembers ==
    {Deref(aws.DescribeDBClusters.DBClusters[1].DBClusterMembers[i].DBInstanceIdentifier) :
        i \in 1..Len(aws.DescribeDBClusters.DBClusters[1].DBClusterMembers)}

\* C12: a failed control-plane call, a failed page of an instance parameter
\* group included, makes describeCluster return an error: a nil error never
\* comes with Params that lack pages the provider failed to deliver.
C12_NoPartialSnapshot ==
    ret.op = "describeCluster" =>
        /\ aws.DescribeDBClusterParameters["cg"].err => ret.out.kind = "error"
        /\ (~aws.DescribeDBClusterParameters["cg"].err /\
            \E m \in DeclaredMembers : aws.DescribeDBInstances[m].err) => ret.out.kind = "error"
        /\ ret.out = Ok(TRUE) =>
               \A g \in ReachedGroups : aws.DescribeDBParameters[g].failAt = 0

\* C13: a snapshot returned with a nil error has at least one instance; a
\* cluster without members, or whose instance descriptors come back empty,
\* does not yield a successful snapshot.
C13_NonEmptyInstances ==
    (ret.op = "describeCluster" /\ ret.out = Ok(TRUE)) => dbInfo.DBs # <<>>

-----------------------------------------------------------------------------
(* SpecMain: the evaluators that main runs to fill its metrics, over snapshots
   with absent optional fields and over failing version queries *)

\* h.db.Get(&dest, query) into the named result: the scanned value, or "" when
\* the query fails or yields no row
getString(answer) == IF answer.err THEN Str("") ELSE Str(answer.value)

\* the pool after a query of main, which runs before any request is served:
\* the connection it used is free again
Queried(database) ==
    [database EXCEPT !.idle = IF BagToSet(@) = {} THEN SetToBag({DsnDatabase}) ELSE @]

innodbFileFormat(database) == getString(database.innodb_file_format)

schemaversion(database) == getString(database.schema_version)

aversion(database) == getString(database.aurora_version)

Eval_innodbFileFormat ==
    /\ ret' = [op |-> "innodbFileFormat", out |-> innodbFileFormat(db)]
    /\ calls' = <<"SELECT @@innodb_file_format">>
    /\ db' = Queried(db)
    /\ UNCHANGED <<mysqlhost, LambdaInvoker, AccountID, dbInfo, aws, reqs>>

Eval_schemaversion ==
    /\ ret' = [op |-> "schemaversion", out |-> schemaversion(db)]
    /\ calls' = <<"SELECT schema_version">>
    /\ db' = Queried(db)
    /\ UNCHANGED <<mysqlhost, LambdaInvoker, AccountID, dbInfo, aws, reqs>>

Eval_aversion ==
    /\ ret' = [op |-> "aversion", out |-> aversion(db)]
    /\ calls' = <<"select AURORA_VERSION()">>
    /\ db' = Queried(db)
    /\ UNCHANGED <<mysqlhost, LambdaInvoker, AccountID, dbInfo, aws, reqs>>

\* main has no recover: a panic in an evaluator ends the process
Running == ret.out # Panic

MaxMainDBs == 2

\* the nominal instance, and the instance with one optional field absent
MainInstances ==
    {DefaultInstance,
     [DefaultInstance EXCEPT !.EngineVersion = Nil],
     [DefaultInstance EXCEPT !.DBInstanceClass = Nil],
     [DefaultInstance EXCEPT !.IAMDatabaseAuthenticationEnabled = Nil],
     [DefaultInstance EXCEPT !.Endpoint = Nil],
     [DefaultInstance EXCEPT !.DBParameterGroups[1].ParameterApplyStatus = Nil]}

MainMembers ==
    {<<>>, <<DefaultMember>>, <<[DefaultMember EXCEPT !.DBClusterParameterGroupStatus = Nil]>>}

MainParams ==
    {<<>>, <<DefaultParam>>, <<[DefaultParam EXCEPT !.ParameterValue = Nil]>>,
     <<[DefaultParam EXCEPT !.ParameterName = Nil]>>}

\* a version query fails (or has no row), or answers a value
VersionAnswers(v) == {[err |-> TRUE], [err |-> FALSE, value |-> v]}

InitMain ==
    /\ mysqlhost = DefaultHost
    /\ LambdaInvoker = DefaultInvoker
    /\ AccountID = "1"
    /\ aws = DefaultAws
    /\ dbInfo \in {[DefaultInfo EXCEPT !.Cluster.DBClusterMembers = m, !.DBs = s, !.Params = p] :
                      m \in MainMembers, s \in SeqOf(MainInstances, 1, MaxMainDBs),
                      p \in MainParams}
    /\ db \in {DefaultDb @@ [innodb_file_format |-> f, schema_version |-> v, aurora_version |-> a] :
                  f \in VersionAnswers("Barracuda"), v \in VersionAnswers("v4.38.0"),
                  a \in VersionAnswers("1.19.5")}
    /\ calls = <<>>
    /\ ret = NoRet
    /\ reqs = EmptyBag

SpecMain ==
    InitMain /\
    [][Running /\ (Eval_schemaversion \/ Eval_aversion \/ Eval_engineVersion \/
                   Eval_instanceClass \/ Eval_innodbFileFormat \/ Eval_slowLogEnabled \/
                   Eval_iamEnabled \/ Eval_insync)]_vars

\* C14: no evaluator aborts on missing data: with any optional field of a
\* member, instance, parameter group or parameter absent, and with any version
\* query failing, each evaluator returns a result value, so none keeps the
\* others from producing theirs.
C14_NoAbortOnMissingData ==
    /\ ret.out # Panic
    /\ ret.op \in {"schemaversion", "aversion", "innodbFileFormat", "engineVersion",
                   "instanceClass"} => ret.out.kind = "string"
    /\ ret.op \in {"iamEnabled", "insync"} => ret.out.kind = "gauge"
    /\ ret.op = "slowLogEnabled" => ret.out.kind = "gaugevec"

-----------------------------------------------------------------------------
(* SpecServe: the process from New on: the snapshot is assembled once, then
   read by the evaluators and the request handlers in any order, the
   evaluators and /describe also between the statements of a /checks request *)

\* h.lookup(key) for the keys slowLogEnabled reads
Eval_lookup ==
    \E key \in SlowLogKeys :
        ret' = [op |-> "lookup", key |-> key, out |-> lookup(dbInfo, key)] /\ Frame

\* the /describe handler: response.JSON(w, h.dbInfo)
Describe ==
    ret' = [op |-> "describe", out |-> [kind |-> "json", code |-> 200, body |-> dbInfo]] /\ Frame

\* New returned a nil error: main goes on to the evaluators and serves requests
Assembled == ret.op # "none" /\ (ret.op = "describeCluster" => ret.out = Ok(TRUE))

MaxServeParams == 1

ActiveRole == [Status |-> Ptr("ACTIVE"), RoleArn |-> Ptr(RoleArnOf("r1"))]

\* one located cluster with an ACTIVE role and the instance db1, whose groups
\* are gs; cp are the cluster-level parameters, gp those of group g1
ServeFixture(cp, gp, gs) ==
    [DefaultAws EXCEPT
        !.DescribeDBClusters.DBClusters =
            <<[DefaultCluster EXCEPT !.AssociatedRoles = <<ActiveRole>>]>>,
        !.DescribeDBClusterParameters = [g \in {"cg"} |-> cp],
        !.DescribeDBInstances =
            [d \in {"db1"} |-> [err |-> FALSE, DBInstances |-> <<Instance("db1", gs)>>]],
        !.DescribeDBParameters =
            [g \in {"g1", "g2"} |->
                IF g = "g1" THEN gp
                ELSE [failAt |-> 0, cuts |-> {},
                      params |-> <<[ParameterName |-> Ptr("log_output"),
                                    ParameterValue |-> Ptr("TABLE")]>>]]]

ServeFixtures(n) ==
    {ServeFixture(cp, [failAt |-> 0, params |-> l.params, cuts |-> l.cuts], gs) :
        cp \in {[err |-> TRUE, params |-> <<>>, cuts |-> {}]} \cup
               {[err |-> FALSE, params |-> L, cuts |-> {}] : L \in SeqOf(AggParams, 0, n)},
        l \in PagedLists(n),
        gs \in {<<"g1">>, <<"g1", "g2">>}}

\* a routine of database d whose source query is answered
ServeRoutine(d) ==
    [Database |-> d, Name |-> <<"update", "_bug">>,
     create |-> [err |-> FALSE,
                 row |-> [Procedure |-> <<"update", "_bug">>, Source |-> Nil,
                          CharacterSetClient |-> CharsetWanted,
                          DatabaseCollation |-> CollationWanted]]]

InitServe ==
    /\ mysqlhost = DefaultHost
    /\ LambdaInvoker = DefaultInvoker
    /\ AccountID = "1"
    /\ aws \in ServeFixtures(MaxServeParams)
    /\ dbInfo = EmptyInfo
    /\ db \in {[DefaultDb EXCEPT !.procs.rows = pp] :
                  pp \in {<<>>, <<ServeRoutine("unee_t_enterprise")>>}}
    /\ calls = <<>>
    /\ ret = NoRet
    /\ reqs = EmptyBag

SpecServe ==
    InitServe /\
    [][New \/ (Assembled /\ (Eval_insync \/ Eval_iamEnabled \/ Eval_slowLogEnabled \/
                             Eval_lookup \/ Eval_engineVersion \/ Eval_instanceClass \/
                             (Quiet /\ Checks) \/ Send \/ Receive \/ Describe))]_vars

\* the parameters in traversal order: the cluster-level group, then the
\* instance groups in page order
Traversal ==
    aws.DescribeDBClusterParameters["cg"].params \o AllGroupParams(aws, GroupNames(dbInfo.DBs))

\* the value of the last entry named key in the parameter list ps, "" without one
LastValue(ps, key) ==
    LET named == {i \in 1..Len(ps) : ps[i].ParameterName = Ptr(key)}
    IN IF named = {} THEN ""
       ELSE Deref(ps[CHOOSE i \in named : \A j \in named : j <= i].ParameterValue)

\* C15: when a parameter name occurs more than once in the traversal, the
\* value read from the snapshot for that name is the one of its last
\* occurrence in traversal order.
C15_LastWriterWins ==
    ret.op = "lookup" => ret.out = Str(LastValue(Traversal, ret.key))

\* C16: once New has assembled the snapshot, no evaluator and no request
\* handler changes it, in any number and any order of invocations.
C16_SnapshotImmutable == [][ret.op # "none" => dbInfo' = dbInfo]_vars

\* after assembly and further operations, /checks has rendered its report and
\* left its connection on another database, and the snapshot is still the
\* assembled one, with parameters from the cluster group and from group g1
C16_Witness ==
    /\ ret.op = "checks"
    /\ ret.out.kind = "report"
    /\ BagToSet(db.idle) = {"unee_t_enterprise"}
    /\ Len(dbInfo.Params) = 2 * MaxServeParams
    /\ dbInfo = describeCluster(mysqlhost, aws).info

-----------------------------------------------------------------------------
(* Claims on the role step and the routine step of checks *)

GateRoleSeq == dbInfo.Cluster.AssociatedRoles

\* positions of the roles that are ACTIVE and carry AWSLambdaFullAccess
Carriers == {i \in 1..Len(GateRoleSeq) : Carries(GateRoleSeq[i])}

\* the names under which IAM knows the role
Known(role) == {r \in DOMAIN aws.ListAttachedRolePolicies : role.RoleArn = Ptr(ArnNamed(r))}

\* the IAM queries for the ACTIVE roles with a well-formed ARN among the first n
RECURSIVE IamQueries(_)
IamQueries(n) ==
    IF n = 0 THEN <<>>
    ELSE IamQueries(n - 1) \o
         (IF GateRoleSeq[n].Status = Ptr("ACTIVE") /\ Known(GateRoleSeq[n]) # {}
          THEN <<"ListAttachedRolePolicies:" \o (CHOOSE r \in Known(GateRoleSeq[n]) : TRUE)>>
          ELSE <<>>)

\* C17: with the invoker and its grant in place, when some role is ACTIVE and
\* carries AWSLambdaFullAccess the role step passes: the scan stops at the
\* first such role, no later role is queried, and no later role's state or
\* query outcome fails the step or ends the request without a response.
C17_StopsAtFirstMatch ==
    (ret.op = "checks" /\ LambdaInvoker = DefaultInvoker /\ ~db.user.err /\ db.user.exists /\
     GrantHeld /\ Carriers # {}) =>
        LET first == CHOOSE i \in Carriers : \A j \in Carriers : i <= j
        IN (\A k \in 1..(first - 1) :
                (GateRoleSeq[k].Status = Ptr("ACTIVE") /\ Known(GateRoleSeq[k]) # {}) =>
                    \A r \in Known(GateRoleSeq[k]) : ~aws.ListAttachedRolePolicies[r].err) =>
               /\ ret.out.kind = "report"
               /\ calls = <<"SELECT EXISTS mysql.user", "show grants">> \o IamQueries(first) \o
                          <<"SHOW PROCEDURE STATUS">>

\* C18: once the prerequisites have passed, the routine step never fails the
\* gate: whatever the listing and the sources are, and whether or not a
\* routine query fails, the request ends with the report, in which a
\* mismatching account or function is a per-routine note.
C18_StepFourNeverFails ==
    ret.op = "checks" =>
        /\ ret.out.kind = "report"
        /\ \A d \in DOMAIN ret.out.databases :
               \A k \in 1..Len(ret.out.databases[d].procs) :
                   LET v == ret.out.databases[d].procs[k]
                   IN HasPrefix(v.Procedure, "lambda") <=> ~IsNil(v.AccountCheck)

-----------------------------------------------------------------------------
(* SpecSession: up to MaxRequests overlapping requests to /checks, /unicode,
   /tables, /call and / on the pool of h.db, the database contents unchanged *)

MaxTables == 2

\* a table as the server describes it: the type of its first column and the
\* answer to the row count
TableRow(name, type, count) ==
    [Name |-> name, describe |-> [err |-> FALSE, rows |-> <<[Type |-> type]>>], count |-> count]

\* the tables of bugzilla, in listing order
BugzillaTables ==
    <<TableRow("bugs", <<"smallint", "(6)">>, [err |-> FALSE, value |-> 2]),
      TableRow("cc", <<"smallint", "(6)">>, [err |-> FALSE, value |-> 2]),
      TableRow("audit", <<"smallint", "(6)">>, [err |-> TRUE])>>

\* the tables of unee_t_enterprise
EnterpriseTables == <<TableRow("cc", <<"smallint", "(6)">>, [err |-> FALSE, value |-> 4])>>

\* show tables lists the first k of ts, k from lo to n
TableAnswers(ts, lo, n) ==
    {[err |-> FALSE, rows |-> SubSeq(ts, 1, k)] : k \in lo..Min({n, Len(ts)})}

StatusRows ==
    <<[Name |-> "bugs", Collation |-> Ptr(CollationWanted)],
      [Name |-> "cc", Collation |-> Ptr("utf8_general_ci")],
      [Name |-> "profiles", Collation |-> Nil]>>

\* the server's answers about the two databases
SessionSchemas(n) ==
    {[d \in {"bugzilla", "unee_t_enterprise"} |->
         IF d = "bugzilla"
         THEN [use_err |-> FALSE, create_err |-> FALSE,
               status |-> [err |-> FALSE, rows |-> StatusRows], tables |-> tb]
         ELSE [use_err |-> ue, create_err |-> FALSE,
               status |-> [err |-> FALSE, rows |-> <<>>], tables |-> te]] :
        ue \in BOOLEAN,
        tb \in TableAnswers(BugzillaTables, 1, n),
        te \in TableAnswers(EnterpriseTables, 0, n)}

\* New has opened h.db on the DSN; no connection is made before the first
\* statement
InitSession ==
    /\ mysqlhost = DefaultHost
    /\ LambdaInvoker = DefaultInvoker
    /\ AccountID = "1"
    /\ aws = DefaultAws
    /\ dbInfo = [DefaultInfo EXCEPT !.Cluster.AssociatedRoles = <<ActiveRole>>]
    /\ db \in {[DefaultDb EXCEPT !.procs.rows = pp, !.call_err = ce, !.schemas = sc] :
                  pp \in {<<>>, <<ServeRoutine("bugzilla")>>},
                  ce \in BOOLEAN, sc \in SessionSchemas(MaxTables)}
    /\ calls = <<>>
    /\ ret = NoRet
    /\ reqs = EmptyBag

SpecSession ==
    InitSession /\ [][Checks \/ Unicode \/ Tables \/ Call \/ Ping \/ Send \/ Receive]_vars

\* what the handler answers when its request res runs by itself on one
\* connection whose default database is d
RECURSIVE Alone(_, _)
Alone(res, d) ==
    IF res.done THEN res
    ELSE IF IamWait(res.req) THEN Alone(Resume(res.req), d)
    ELSE Alone(Resume(Sent(res.req, Answer(db, res.req.stmt, d))),
               Answer(db, res.req.stmt, d).current)

\* C19: no handler leaves a connection's default database changed: with the
\* database contents unchanged, every connection of the pool stays on the
\* default database it was opened with, and the answer of /tables is the one
\* for that database, after any sequence and interleaving of /checks,
\* /unicode, /tables, /call and / requests.
C19_SessionReadOnly ==
    /\ \A d \in BagToSet(db.idle) : d = DsnDatabase
    /\ ret.op = "tables" => ret.out \in Alone(Resume(NewRequest("tables")), DsnDatabase).outs

====
